---- MODULE Spec2Model ----
(***************************************************************************)
(* The Soko planner: world and state model (maze.py, state.py), successor  *)
(* generation and goal test (actions.py), heuristics (heuristics.py) and   *)
(* the four search strategies with plan reconstruction (search.py).        *)
(*                                                                         *)
(* Ids are the strings the maze file gives them ("A", "1"); coordinates    *)
(* are pairs <<x, y>>; a Python dict is the sequence of its <<key, value>> *)
(* pairs in insertion order; a Python tuple of pairs is the same sequence. *)
(***************************************************************************)
EXTENDS Integers, Sequences, FiniteSets, TLC

\* Python None where an id or an action label is expected.
None == "None"

\* Python None (and the empty tuple) where a coordinate is expected.
NoPos == <<>>

(***************************************************************************)
(* Python dict and sorting helpers                                         *)
(***************************************************************************)
DictKeys(d) == {d[i][1] : i \in 1..Len(d)}

\* dict.get(k): the value stored under k, or None.
DictGet(d, k) ==
    IF k \in DictKeys(d)
    THEN d[CHOOSE i \in 1..Len(d) : d[i][1] = k][2]
    ELSE NoPos

\* d[k] = v: an existing key keeps its place, a new key goes last.
DictSet(d, k, v) ==
    IF k \in DictKeys(d)
    THEN [i \in 1..Len(d) |-> IF d[i][1] = k THEN <<k, v>> ELSE d[i]]
    ELSE Append(d, <<k, v>>)

\* The characters ids are made of, in code-point order (digits before letters).
IdOrder == <<"0", "1", "2", "3", "A", "B", "C", "D">>

IdRank(id) == CHOOSE i \in 1..Len(IdOrder) : IdOrder[i] = id

RECURSIVE InsertByKey(_, _)
InsertByKey(p, q) ==
    IF q = <<>> THEN <<p>>
    ELSE IF IdRank(p[1]) < IdRank(Head(q)[1]) THEN <<p>> \o q
    ELSE <<Head(q)>> \o InsertByKey(p, Tail(q))

\* The pairs of a dict in insertion order, unsorted.
SortedAsInserted(d) == d

\* sorted(d.items()): the pairs in ascending order of their (unique) keys.
RECURSIVE Sorted(_)
Sorted(d) == IF d = <<>> THEN <<>> ELSE InsertByKey(d[Len(d)], Sorted(SubSeq(d, 1, Len(d) - 1)))

(***************************************************************************)
(* state.py                                                                *)
(***************************************************************************)
State(soko_pos, carried_box, box_positions, keys_owned, keys_on_floor, g) ==
    [soko_pos |-> soko_pos, carried_box |-> carried_box,
     box_positions |-> box_positions, keys_owned |-> keys_owned,
     keys_on_floor |-> keys_on_floor, g |-> g]

state_key(state) ==
    <<state.soko_pos, state.carried_box, state.box_positions,
      state.keys_owned, state.keys_on_floor>>

make_initial_state(soko_pos, boxes, keys) ==
    State(soko_pos, None, Sorted(boxes), {}, Sorted(keys), 0)

boxes_dict(state) == state.box_positions

(***************************************************************************)
(* maze.py                                                                 *)
(***************************************************************************)
Maze(width, height, walls, zones, doors) ==
    [width |-> width, height |-> height, walls |-> walls,
     zones |-> zones, doors |-> doors]

\* The cells of a maze file in the order the two nested loops visit them,
\* each as <<x, y, object>>; an object is <<kind>> or <<kind, id>>.
ScanCells(map) ==
    LET RowCells(y) == [x \in 1..Len(map[y]) |-> <<x - 1, y - 1, map[y][x]>>]
        RECURSIVE Rows(_)
        Rows(y) == IF y > Len(map) THEN <<>> ELSE RowCells(y) \o Rows(y + 1)
    IN  Rows(1)

\* The dict the scan builds for one kind of object ("B", "Z", "K", "D").
RECURSIVE ScanDict(_, _)
ScanDict(cells, kind) ==
    IF cells = <<>> THEN <<>>
    ELSE LET c == cells[Len(cells)]
             rest == ScanDict(SubSeq(cells, 1, Len(cells) - 1), kind)
         IN  IF c[3][1] = kind THEN DictSet(rest, c[3][2], <<c[1], c[2]>>) ELSE rest

\* parse_maze_file: <<maze, initial_state>> of a maze file.
parse_maze_file(map) ==
    LET cells == ScanCells(map)
        walls == {<<cells[i][1], cells[i][2]>> : i \in {j \in 1..Len(cells) : cells[j][3][1] = "W"}}
        starts == {j \in 1..Len(cells) : cells[j][3][1] = "S"}
        soko_coords ==
            IF starts = {} THEN NoPos
            ELSE LET j == CHOOSE k \in starts : \A l \in starts : l <= k
                 IN  <<cells[j][1], cells[j][2]>>
    IN  <<Maze(Len(map[1]), Len(map), walls, ScanDict(cells, "Z"), ScanDict(cells, "D")),
          make_initial_state(soko_coords, ScanDict(cells, "B"), ScanDict(cells, "K"))>>

is_wall(maze, pos) == pos \in maze.walls

door_id_at(maze, pos) ==
    LET FirstAt(i) == i \in 1..Len(maze.doors) /\ maze.doors[i][2] = pos
                        /\ \A j \in 1..(i - 1) : maze.doors[j][2] # pos
    IN  IF \E i \in 1..Len(maze.doors) : FirstAt(i)
        THEN maze.doors[CHOOSE i \in 1..Len(maze.doors) : FirstAt(i)][1]
        ELSE None

in_bounds(maze, pos) ==
    0 <= pos[1] /\ pos[1] < maze.width /\ 0 <= pos[2] /\ pos[2] < maze.height

(***************************************************************************)
(* actions.py                                                              *)
(***************************************************************************)
\* can_move_to without the locked-door test.
can_move_to_unlocked(maze, state, new_pos) ==
    in_bounds(maze, new_pos) /\ ~is_wall(maze, new_pos)

\* can_move_to without the wall test.
can_move_to_through_walls(maze, state, new_pos) ==
    /\ in_bounds(maze, new_pos)
    /\ door_id_at(maze, new_pos) # None => door_id_at(maze, new_pos) \in state.keys_owned

can_move_to(maze, state, new_pos) ==
    IF ~in_bounds(maze, new_pos) THEN FALSE
    ELSE IF is_wall(maze, new_pos) THEN FALSE
    ELSE LET door_id == door_id_at(maze, new_pos)
         IN  IF door_id # None /\ door_id \notin state.keys_owned THEN FALSE
             ELSE TRUE

\* Moving with the carried box's entry of box_positions following the agent.
move_soko_tracking(state, new_pos, action_name) ==
    State(new_pos, state.carried_box,
          [i \in 1..Len(state.box_positions) |->
              <<state.box_positions[i][1],
                IF state.box_positions[i][1] = state.carried_box THEN new_pos
                ELSE state.box_positions[i][2]>>],
          state.keys_owned, state.keys_on_floor, state.g + 1)

\* Moving without counting the step.
move_soko_uncounted(state, new_pos, action_name) ==
    State(new_pos, state.carried_box, state.box_positions,
          state.keys_owned, state.keys_on_floor, state.g)

move_soko(state, new_pos, action_name) ==
    State(new_pos, state.carried_box, state.box_positions,
          state.keys_owned, state.keys_on_floor, state.g + 1)

\* Taking a key and leaving it on the floor as well.
take_key_leaving(state, key_id) ==
    State(state.soko_pos, state.carried_box, state.box_positions,
          state.keys_owned \cup {key_id}, state.keys_on_floor, state.g + 1)

take_key(state, key_id) ==
    State(state.soko_pos, state.carried_box, state.box_positions,
          state.keys_owned \cup {key_id},
          SelectSeq(state.keys_on_floor, LAMBDA p : p[1] # key_id),
          state.g + 1)

\* Lifting a box and taking its entry out of box_positions.
lift_box_removing(state, box_id) ==
    State(state.soko_pos, box_id,
          SelectSeq(state.box_positions, LAMBDA p : p[1] # box_id),
          state.keys_owned, state.keys_on_floor, state.g + 1)

lift_box(state, box_id) ==
    State(state.soko_pos, box_id, state.box_positions,
          state.keys_owned, state.keys_on_floor, state.g + 1)

\* drop_box that lets go of the box without recording its new position.
drop_box_in_place(state, box_id, zone_pos) ==
    State(state.soko_pos, None, state.box_positions,
          state.keys_owned, state.keys_on_floor, state.g + 1)

\* drop_box putting the box down without letting go of it.
drop_box_holding(state, box_id, zone_pos) ==
    State(state.soko_pos, state.carried_box,
          [i \in 1..Len(state.box_positions) |->
              <<state.box_positions[i][1],
                IF state.box_positions[i][1] = box_id THEN zone_pos
                ELSE state.box_positions[i][2]>>],
          state.keys_owned, state.keys_on_floor, state.g + 1)

drop_box(state, box_id, zone_pos) ==
    State(state.soko_pos, None,
          [i \in 1..Len(state.box_positions) |->
              <<state.box_positions[i][1],
                IF state.box_positions[i][1] = box_id THEN zone_pos
                ELSE state.box_positions[i][2]>>],
          state.keys_owned, state.keys_on_floor, state.g + 1)

\* get_successors letting a carried box go on any tile.
get_successors_drops_anywhere(maze, state) ==
    LET x == state.soko_pos[1]
        y == state.soko_pos[2]
        movement_actions == << <<<<x - 1, y>>, "Left">>, <<<<x + 1, y>>, "Right">>,
                               <<<<x, y - 1>>, "Up">>, <<<<x, y + 1>>, "Down">> >>
        legal == SelectSeq(movement_actions, LAMBDA m : can_move_to(maze, state, m[1]))
        moves == [i \in 1..Len(legal) |-> <<move_soko(state, legal[i][1], legal[i][2]), legal[i][2]>>]
        here_keys == SelectSeq(state.keys_on_floor, LAMBDA p : p[2] = state.soko_pos)
        takes == [i \in 1..Len(here_keys) |->
                    <<take_key(state, here_keys[i][1]), "Take Key " \o here_keys[i][1]>>]
        here_boxes == SelectSeq(state.box_positions, LAMBDA p : p[2] = state.soko_pos)
        lifts == IF state.carried_box = None
                 THEN [i \in 1..Len(here_boxes) |->
                         <<lift_box(state, here_boxes[i][1]), "Lift Box " \o here_boxes[i][1]>>]
                 ELSE <<>>
        zone_pos == DictGet(maze.zones, state.carried_box)
        drops == IF state.carried_box # None /\ zone_pos # NoPos
                 THEN << <<drop_box(state, state.carried_box, zone_pos),
                           "Drop Box " \o state.carried_box>> >>
                 ELSE <<>>
    IN  moves \o takes \o lifts \o drops

\* get_successors with the Lift Box loop ahead of the Take Key loop.
get_successors_lifts_first(maze, state) ==
    LET x == state.soko_pos[1]
        y == state.soko_pos[2]
        movement_actions == << <<<<x - 1, y>>, "Left">>, <<<<x + 1, y>>, "Right">>,
                               <<<<x, y - 1>>, "Up">>, <<<<x, y + 1>>, "Down">> >>
        legal == SelectSeq(movement_actions, LAMBDA m : can_move_to(maze, state, m[1]))
        moves == [i \in 1..Len(legal) |-> <<move_soko(state, legal[i][1], legal[i][2]), legal[i][2]>>]
        here_keys == SelectSeq(state.keys_on_floor, LAMBDA p : p[2] = state.soko_pos)
        takes == [i \in 1..Len(here_keys) |->
                    <<take_key(state, here_keys[i][1]), "Take Key " \o here_keys[i][1]>>]
        here_boxes == SelectSeq(state.box_positions, LAMBDA p : p[2] = state.soko_pos)
        lifts == IF state.carried_box = None
                 THEN [i \in 1..Len(here_boxes) |->
                         <<lift_box(state, here_boxes[i][1]), "Lift Box " \o here_boxes[i][1]>>]
                 ELSE <<>>
        zone_pos == DictGet(maze.zones, state.carried_box)
        drops == IF state.carried_box # None /\ zone_pos # NoPos /\ state.soko_pos = zone_pos
                 THEN << <<drop_box(state, state.carried_box, zone_pos),
                           "Drop Box " \o state.carried_box>> >>
                 ELSE <<>>
    IN  moves \o lifts \o takes \o drops

\* get_successors: the sequence of <<new_state, action_name>> pairs.
get_successors(maze, state) ==
    LET x == state.soko_pos[1]
        y == state.soko_pos[2]
        movement_actions == << <<<<x - 1, y>>, "Left">>, <<<<x + 1, y>>, "Right">>,
                               <<<<x, y - 1>>, "Up">>, <<<<x, y + 1>>, "Down">> >>
        legal == SelectSeq(movement_actions, LAMBDA m : can_move_to(maze, state, m[1]))
        moves == [i \in 1..Len(legal) |-> <<move_soko(state, legal[i][1], legal[i][2]), legal[i][2]>>]
        here_keys == SelectSeq(state.keys_on_floor, LAMBDA p : p[2] = state.soko_pos)
        takes == [i \in 1..Len(here_keys) |->
                    <<take_key(state, here_keys[i][1]), "Take Key " \o here_keys[i][1]>>]
        here_boxes == SelectSeq(state.box_positions, LAMBDA p : p[2] = state.soko_pos)
        lifts == IF state.carried_box = None
                 THEN [i \in 1..Len(here_boxes) |->
                         <<lift_box(state, here_boxes[i][1]), "Lift Box " \o here_boxes[i][1]>>]
                 ELSE <<>>
        zone_pos == DictGet(maze.zones, state.carried_box)
        drops == IF state.carried_box # None /\ zone_pos # NoPos /\ state.soko_pos = zone_pos
                 THEN << <<drop_box(state, state.carried_box, zone_pos),
                           "Drop Box " \o state.carried_box>> >>
                 ELSE <<>>
    IN  moves \o takes \o lifts \o drops

\* The goal test of state.py, which also asks that nothing is carried.
is_goal_state_not_carrying(maze, state) ==
    /\ state.carried_box = None
    /\ \A i \in 1..Len(state.box_positions) :
          DictGet(maze.zones, state.box_positions[i][1]) = state.box_positions[i][2]

\* actions.is_goal_state, the goal test search.py and main.py import.
is_goal_state(maze, state) ==
    \A i \in 1..Len(state.box_positions) :
        DictGet(maze.zones, state.box_positions[i][1]) = state.box_positions[i][2]

(***************************************************************************)
(* heuristics.py                                                           *)
(***************************************************************************)
\* The outcome of a call: a returned value, or the exception it raised.
Return(v) == [exc |-> None, value |-> v]

Raise(e) == [exc |-> e, value |-> 0]

\* hasattr(obj, name): whether reading obj.<name> succeeds.
HasAttr(obj, name) == name \in DOMAIN obj

Abs(n) == IF n < 0 THEN 0 - n ELSE n

manhattan_distance(pos1, pos2) == Abs(pos1[1] - pos2[1]) + Abs(pos1[2] - pos2[2])

RECURSIVE SumSeq(_)
SumSeq(q) == IF q = <<>> THEN 0 ELSE Head(q) + SumSeq(Tail(q))

MinOf(S) == CHOOSE m \in S : \A n \in S : m <= n

\* The body of heuristic_manhattan once robot_pos has been read.
manhattan_cost(maze, state, robot_pos) ==
    LET box_positions == boxes_dict(state)
        misplaced_boxes ==
            SelectSeq(box_positions,
                      LAMBDA p : DictGet(maze.zones, p[1]) # NoPos
                                   /\ p[2] # DictGet(maze.zones, p[1]))
        min_robot_to_box ==
            MinOf({manhattan_distance(robot_pos, misplaced_boxes[i][2]) :
                     i \in 1..Len(misplaced_boxes)})
        box_to_zone ==
            [i \in 1..Len(misplaced_boxes) |->
                manhattan_distance(misplaced_boxes[i][2],
                                   DictGet(maze.zones, misplaced_boxes[i][1]))]
        zone_pos == DictGet(maze.zones, state.carried_box)
        base ==
            IF state.carried_box # None
            THEN IF zone_pos # NoPos THEN manhattan_distance(robot_pos, zone_pos) ELSE 0
            ELSE IF misplaced_boxes # <<>> THEN min_robot_to_box + SumSeq(box_to_zone) ELSE 0
        keys_needed == DictKeys(maze.doors) \ state.keys_owned
    IN  IF keys_needed # {} THEN base + Cardinality(keys_needed) ELSE base

\* heuristic_manhattan reads state.robot_pos first; State declares soko_pos.
heuristic_manhattan(maze, state) ==
    IF ~HasAttr(state, "robot_pos") THEN Raise("AttributeError")
    ELSE Return(manhattan_cost(maze, state, state.robot_pos))

\* euclidean_distance, as the number under the square root.
euclidean_distance(pos1, pos2) ==
    (pos1[1] - pos2[1]) * (pos1[1] - pos2[1]) + (pos1[2] - pos2[2]) * (pos1[2] - pos2[2])

\* The body of heuristic_euclidean charging the keys on the floor whether or
\* not a door is still locked.
euclidean_cost_any_floor_key(maze, state, robot_pos) ==
    LET box_positions == boxes_dict(state)
        misplaced_boxes ==
            SelectSeq(box_positions,
                      LAMBDA p : DictGet(maze.zones, p[1]) # NoPos
                                   /\ p[2] # DictGet(maze.zones, p[1]))
        min_robot_to_box ==
            MinOf({euclidean_distance(robot_pos, misplaced_boxes[i][2]) :
                     i \in 1..Len(misplaced_boxes)})
        box_to_zone ==
            [i \in 1..Len(misplaced_boxes) |->
                euclidean_distance(misplaced_boxes[i][2],
                                   DictGet(maze.zones, misplaced_boxes[i][1]))]
        zone_pos == DictGet(maze.zones, state.carried_box)
        roots ==
            IF state.carried_box # None
            THEN IF zone_pos # NoPos THEN <<euclidean_distance(robot_pos, zone_pos)>>
                 ELSE <<>>
            ELSE IF misplaced_boxes # <<>> THEN <<min_robot_to_box>> \o box_to_zone
                 ELSE <<>>
        keys_needed == DictKeys(maze.doors) \ state.keys_owned
    IN  [roots |-> roots,
         halves |-> 3 * Cardinality(keys_needed) + Len(state.keys_on_floor)]

\* The body of heuristic_euclidean once robot_pos has been read. The float it
\* returns is kept exact: roots are the numbers whose square roots are summed
\* (nearest misplaced box first), halves counts the penalty in units of 0.5.
euclidean_cost(maze, state, robot_pos) ==
    LET box_positions == boxes_dict(state)
        misplaced_boxes ==
            SelectSeq(box_positions,
                      LAMBDA p : DictGet(maze.zones, p[1]) # NoPos
                                   /\ p[2] # DictGet(maze.zones, p[1]))
        min_robot_to_box ==
            MinOf({euclidean_distance(robot_pos, misplaced_boxes[i][2]) :
                     i \in 1..Len(misplaced_boxes)})
        box_to_zone ==
            [i \in 1..Len(misplaced_boxes) |->
                euclidean_distance(misplaced_boxes[i][2],
                                   DictGet(maze.zones, misplaced_boxes[i][1]))]
        zone_pos == DictGet(maze.zones, state.carried_box)
        roots ==
            IF state.carried_box # None
            THEN IF zone_pos # NoPos THEN <<euclidean_distance(robot_pos, zone_pos)>>
                 ELSE <<>>
            ELSE IF misplaced_boxes # <<>> THEN <<min_robot_to_box>> \o box_to_zone
                 ELSE <<>>
        keys_on_floor_count == Len(state.keys_on_floor)
        keys_needed == DictKeys(maze.doors) \ state.keys_owned
        halves ==
            IF keys_needed # {}
            THEN 3 * Cardinality(keys_needed)
                   + (IF keys_on_floor_count > 0 THEN keys_on_floor_count ELSE 0)
            ELSE 0
    IN  [roots |-> roots, halves |-> halves]

\* heuristic_euclidean reads state.robot_pos first, like heuristic_manhattan.
heuristic_euclidean(maze, state) ==
    IF ~HasAttr(state, "robot_pos") THEN Raise("AttributeError")
    ELSE Return(euclidean_cost(maze, state, state.robot_pos))

(***************************************************************************)
(* The mazes the searches are run on: maze files as parse_maze_file reads  *)
(* them, rows of cells.                                                    *)
(***************************************************************************)
E == <<" ">>
W == <<"W">>
S == <<"S">>
B(id) == <<"B", id>>
Z(id) == <<"Z", id>>
K(id) == <<"K", id>>
D(id) == <<"D", id>>

\* Scenario A: one box next to the agent, its zone one tile further.
ScenarioA == << <<S, B("A"), Z("A")>>,
                <<E, E, E>>,
                <<E, E, E>> >>

\* Two routes of different length to the box.
LoopMaze == << <<S, E, B("A")>>,
               <<E, E, Z("A")>> >>

\* Scenario B: the zone lies behind door 1, key 1 on a detour.
ScenarioB == << <<S,      B("A"), D("1"), Z("A")>>,
                <<K("1"), W,      W,      W>> >>

\* The key lies behind its own door: no plan exists.
KeyBehindDoor == << <<S, B("A"), D("1"), K("1"), Z("A")>> >>

\* Two boxes, B scanned before A; a door whose key is not needed.
TwoBoxes == << <<B("B"), S,      B("A")>>,
               <<Z("A"), K("1"), Z("B")>>,
               <<W,      D("1"), W>> >>

\* Nothing to deliver: the initial state is a goal state.
NoBoxes == << <<S, E>>,
              <<K("1"), D("1")>> >>

\* The zone is walled off.
WalledZone == << <<S, B("A"), W, Z("A")>>,
                 <<E, E,      W, E>> >>

\* A longer detour around a wall.
Detour == << <<S, W, Z("A")>>,
             <<E, W, E>>,
             <<B("A"), E, E>> >>

\* A malformed maze: box C has no zone.
ZonelessBox == << <<S, B("A"), Z("A")>>,
                  <<B("C"), E, E>> >>

\* Zone B has no box.
SpareZone == << <<S, B("A"), Z("A"), Z("B")>> >>

\* Box C, without a zone, lies on the way to box A.
Decoy == << <<S, B("C"), E, B("A"), Z("A")>> >>

Layouts == <<ScenarioA, LoopMaze, ScenarioB, KeyBehindDoor, TwoBoxes, NoBoxes,
             WalledZone, ZonelessBox, SpareZone, Decoy, Detour>>

\* How many of the layouts, and how many start tiles of each, are run.
NumLayouts == 10

MaxStarts == 2

\* The maze file with the agent's start moved to tile pos.
WithStart(map, pos) ==
    [y \in 1..Len(map) |->
        [x \in 1..Len(map[y]) |->
            IF <<x - 1, y - 1>> = pos THEN S
            ELSE IF map[y][x] = S THEN E ELSE map[y][x]]]

\* The tiles the agent can be started on: its own, then the empty ones in
\* scan order.
StartTiles(map) ==
    LET cells == ScanCells(map)
        own == SelectSeq(cells, LAMBDA c : c[3] = S)
        free == SelectSeq(cells, LAMBDA c : c[3] = E)
        all == own \o free
    IN  [i \in 1..Len(all) |-> <<all[i][1], all[i][2]>>]

\* A world a caller builds without a maze file, through Maze and
\* make_initial_state: two boxes and two keys on the agent's tile, the dicts
\* filled in descending id order, both zones on the neighbouring tile.
Pile ==
    <<Maze(2, 1, {}, << <<"B", <<1, 0>> >>, <<"A", <<1, 0>> >> >>, <<>>),
      make_initial_state(<<0, 0>>,
                         << <<"B", <<0, 0>> >>, <<"A", <<0, 0>> >> >>,
                         << <<"2", <<0, 0>> >>, <<"1", <<0, 0>> >> >>)>>

Worlds ==
    UNION {{parse_maze_file(WithStart(Layouts[l], StartTiles(Layouts[l])[i])) :
              i \in {j \in 1..MaxStarts : j <= Len(StartTiles(Layouts[l]))}} :
           l \in {k \in 1..NumLayouts : k <= Len(Layouts)}}
    \cup {Pile}

(***************************************************************************)
(* The state graph get_successors spans, with path cost left out, and the  *)
(* true remaining cost in it.                                              *)
(***************************************************************************)
Norm(state) == [state EXCEPT !.g = 0]

Range(q) == {q[i] : i \in 1..Len(q)}

SuccStates(maze, state) == {Norm(p[1]) : p \in Range(get_successors(maze, state))}

RECURSIVE Closure(_, _, _)
Closure(maze, seen, fresh) ==
    IF fresh = {} THEN seen
    ELSE LET new == UNION {SuccStates(maze, s) : s \in fresh} \ seen
         IN  Closure(maze, seen \cup new, new)

\* Every state a run from root can come to.
StateSpace(maze, root) == Closure(maze, {Norm(root)}, {Norm(root)})

\* layers[k + 1]: the states whose cheapest way to a goal state has k actions.
RECURSIVE GoalLayersFrom(_, _, _)
GoalLayersNext(maze, left, layers, next) ==
    IF next = {} THEN layers
    ELSE GoalLayersFrom(maze, left \ next, Append(layers, next))

GoalLayersFrom(maze, left, layers) ==
    GoalLayersNext(maze, left, layers,
                   {s \in left : SuccStates(maze, s) \cap layers[Len(layers)] # {}})

GoalLayersOf(maze, space, goals) ==
    IF goals = {} THEN <<>> ELSE GoalLayersFrom(maze, space \ goals, <<goals>>)

Unreachable == 0 - 1

LayerCosts(space, layers) ==
    [s \in space |->
        IF \E k \in 1..Len(layers) : s \in layers[k]
        THEN (CHOOSE k \in 1..Len(layers) : s \in layers[k]) - 1
        ELSE Unreachable]

CostsOfSpace(maze, space) ==
    LayerCosts(space, GoalLayersOf(maze, space, {s \in space : is_goal_state(maze, s)}))

\* For every state a run from root can come to, the least number of actions
\* from it to a goal state, or Unreachable.
TrueCosts(maze, root) == CostsOfSpace(maze, StateSpace(maze, root))

(***************************************************************************)
(* The state of one call of run_search                                     *)
(***************************************************************************)
VARIABLES
    world,          \* the Maze run_search is given
    initial_state,  \* the State run_search is given
    algorithm,      \* the algorithm name run_search is given
    heuristic,      \* the heuristic run_search is given, or None
    pc,             \* where the call is
    result,         \* the SearchResult of the running search
    frontier,       \* deque of states (bfs, ehc) or heap entries <<priority, counter, state>>
    explored,       \* set of state keys
    came_from,      \* state -> <<predecessor, action>>
    g_values,       \* a_star_search: state key -> best g
    counter,        \* greedy, a_star: next heap tie-breaker
    current_state,  \* the popped state; in ehc the root of the round
    current_h,      \* ehc: heuristic of current_state
    plan,           \* ehc: the accumulated plan
    found_better,   \* ehc: the round's flag
    popped,         \* ehc: `state`, the state the round's inner loop popped
    succs,          \* the successors the for loop has still to visit
    error,          \* the exception that ended the call, or None
    true_cost       \* TrueCosts of the run's maze and initial state

vars == <<world, initial_state, algorithm, heuristic, pc, result, frontier, explored,
          came_from, g_values, counter, current_state, current_h, plan, found_better,
          popped, succs, error, true_cost>>

(***************************************************************************)
(* Heuristics a caller passes to run_search besides the two of             *)
(* heuristics.py: any callable of (maze, state) is accepted.               *)
(***************************************************************************)
h_zero(maze, state) == Return(0)

\* The true remaining cost (0 where no goal can be reached).
h_exact(maze, state) ==
    Return(IF true_cost[Norm(state)] = Unreachable THEN 0 ELSE true_cost[Norm(state)])

SpikeTile == <<1, 0>>

\* The true remaining cost on one tile, 0 elsewhere: admissible, not consistent.
h_spike(maze, state) ==
    IF state.soko_pos = SpikeTile THEN h_exact(maze, state) ELSE Return(0)

\* Twice the true remaining cost: not admissible.
h_weighted(maze, state) == Return(2 * h_exact(maze, state).value)

\* heuristic_manhattan behind an adapter that hands it soko_pos as robot_pos.
h_adapted(maze, state) == Return(manhattan_cost(maze, state, state.soko_pos))

Heuristics == {"manhattan", "euclidean", "zero", "exact", "spike", "weighted", "adapted"}

\* heuristic(maze, state) for the callable the run was given.
CallHeuristic(name, maze, state) ==
    CASE name = "manhattan" -> heuristic_manhattan(maze, state)
      [] name = "euclidean" -> heuristic_euclidean(maze, state)
      [] name = "zero" -> h_zero(maze, state)
      [] name = "exact" -> h_exact(maze, state)
      [] name = "spike" -> h_spike(maze, state)
      [] name = "weighted" -> h_weighted(maze, state)
      [] name = "adapted" -> h_adapted(maze, state)

(***************************************************************************)
(* search.py                                                               *)
(***************************************************************************)
\* SearchResult(): the fields __init__ sets (time_taken, a clock reading, left out).
SearchResult ==
    [plan |-> <<>>, success |-> FALSE, states_generated |-> 0,
     states_expanded |-> 0, plan_length |-> 0]

EmptyDict == [k \in {} |-> k]

\* d[k] = v on a dict used as a map.
Put(d, k, v) == [x \in DOMAIN d \cup {k} |-> IF x = k THEN v ELSE d[x]]

Reverse(q) == [i \in 1..Len(q) |-> q[Len(q) + 1 - i]]

\* The actions collected walking back from goal_state, newest first.
WalkBack(cf, goal_state) ==
    LET back[current \in DOMAIN cf \cup {cf[s][1] : s \in DOMAIN cf} \cup {goal_state}] ==
            IF current \in DOMAIN cf
            THEN (IF cf[current][2] # "" THEN <<cf[current][2]>> ELSE <<>>)
                     \o back[cf[current][1]]
            ELSE <<>>
    IN  back[goal_state]

\* reconstruct_plan ending its walk one step before the start state.
reconstruct_plan_stopping_early(cf, goal_state) ==
    IF WalkBack(cf, goal_state) = <<>> THEN <<>>
    ELSE Tail(Reverse(WalkBack(cf, goal_state)))

\* reconstruct_plan without the final reverse.
reconstruct_plan_unreversed(cf, goal_state) == WalkBack(cf, goal_state)

reconstruct_plan(cf, goal_state) == Reverse(WalkBack(cf, goal_state))

\* The result a search returns with on popping a goal state.
Succeeded(res, cf, goal_state) ==
    [res EXCEPT !.success = TRUE,
                !.plan = reconstruct_plan(cf, goal_state),
                !.plan_length = Len(reconstruct_plan(cf, goal_state))]

\* Heap entries compare as tuples: priority first, then the counter.
\* Heap entries compared with the later push winning a tie.
EntryLessLatest(a, b) == a[1] < b[1] \/ (a[1] = b[1] /\ a[2] > b[2])

EntryLess(a, b) == a[1] < b[1] \/ (a[1] = b[1] /\ a[2] < b[2])

\* heapq.heappop: the index of the least entry.
HeapMinIndex(heap) ==
    CHOOSE i \in 1..Len(heap) : \A j \in 1..Len(heap) : j = i \/ EntryLess(heap[i], heap[j])

HeapWithout(heap, i) == SubSeq(heap, 1, i - 1) \o SubSeq(heap, i + 1, Len(heap))

\* What one pass of a for loop over the successors works on.
LoopState(fr, ex, cf, gv, ctr, generated) ==
    [frontier |-> fr, explored |-> ex, came_from |-> cf, g_values |-> gv,
     counter |-> ctr, generated |-> generated, exc |-> None]

\* The for loop body pushing on the front of the queue (a stack).
bfs_visit_lifo(st, current, successor, action) ==
    IF state_key(successor) \notin st.explored
    THEN [st EXCEPT !.explored = @ \cup {state_key(successor)},
                    !.came_from = Put(@, successor, <<current, action>>),
                    !.frontier = <<successor>> \o @,
                    !.generated = @ + 1]
    ELSE st

\* The for loop body that marks a carrying successor explored without
\* queueing it.
bfs_visit_unqueued(st, current, successor, action) ==
    IF state_key(successor) \notin st.explored
    THEN [st EXCEPT !.explored = @ \cup {state_key(successor)},
                    !.came_from = Put(@, successor, <<current, action>>),
                    !.frontier = IF successor.carried_box # None THEN @
                                 ELSE Append(@, successor),
                    !.generated = @ + 1]
    ELSE st

\* The for loop body that queues a successor without counting it.
bfs_visit_uncounted(st, current, successor, action) ==
    IF state_key(successor) \notin st.explored
    THEN [st EXCEPT !.explored = @ \cup {state_key(successor)},
                    !.came_from = Put(@, successor, <<current, action>>),
                    !.frontier = Append(@, successor)]
    ELSE st

\* breadth_first_search: the body of the for loop, for one successor.
bfs_visit(st, current, successor, action) ==
    IF state_key(successor) \notin st.explored
    THEN [st EXCEPT !.explored = @ \cup {state_key(successor)},
                    !.came_from = Put(@, successor, <<current, action>>),
                    !.frontier = Append(@, successor),
                    !.generated = @ + 1]
    ELSE st

\* The for loop body of greedy with the better-g rule of a_star: a successor
\* whose key is explored is taken again when it comes with a lower g.
greedy_visit_reopening(st, current, successor, action, h_value) ==
    IF \/ state_key(successor) \notin st.explored
       \/ \E s \in DOMAIN st.came_from :
             state_key(s) = state_key(successor) /\ successor.g < s.g
    THEN [st EXCEPT !.explored = @ \cup {state_key(successor)},
                    !.came_from = Put(@, successor, <<current, action>>),
                    !.frontier = Append(@, <<h_value.value, st.counter, successor>>),
                    !.counter = @ + 1,
                    !.generated = @ + 1]
    ELSE st

\* The for loop body of greedy with a frontier that takes no third entry.
greedy_visit_bounded(st, current, successor, action, h_value) ==
    IF state_key(successor) \notin st.explored
    THEN IF Len(st.frontier) >= 2
         THEN [st EXCEPT !.explored = @ \cup {state_key(successor)},
                         !.came_from = Put(@, successor, <<current, action>>)]
         ELSE [st EXCEPT !.explored = @ \cup {state_key(successor)},
                         !.came_from = Put(@, successor, <<current, action>>),
                         !.frontier = Append(@, <<h_value.value, st.counter, successor>>),
                         !.counter = @ + 1,
                         !.generated = @ + 1]
    ELSE st

\* greedy_best_first_search: the body of the for loop; h_value is the outcome
\* of heuristic(maze, successor), called after the predecessor is recorded.
greedy_visit(st, current, successor, action, h_value) ==
    IF state_key(successor) \notin st.explored
    THEN IF h_value.exc # None
         THEN [st EXCEPT !.explored = @ \cup {state_key(successor)},
                         !.came_from = Put(@, successor, <<current, action>>),
                         !.exc = h_value.exc]
         ELSE [st EXCEPT !.explored = @ \cup {state_key(successor)},
                         !.came_from = Put(@, successor, <<current, action>>),
                         !.frontier = Append(@, <<h_value.value, st.counter, successor>>),
                         !.counter = @ + 1,
                         !.generated = @ + 1]
    ELSE st

\* The for loop body of a_star counting a key once: a push with a better g
\* for a key pushed before is not counted.
a_star_visit_counting_keys(st, current, successor, action, h_value) ==
    IF state_key(successor) \in st.explored THEN st
    ELSE IF state_key(successor) \notin DOMAIN st.g_values
    THEN [st EXCEPT !.g_values = Put(@, state_key(successor), successor.g),
                    !.came_from = Put(@, successor, <<current, action>>),
                    !.frontier = Append(@, <<successor.g + h_value.value,
                                             st.counter, successor>>),
                    !.counter = @ + 1,
                    !.generated = @ + 1]
    ELSE IF successor.g < st.g_values[state_key(successor)]
    THEN [st EXCEPT !.g_values = Put(@, state_key(successor), successor.g),
                    !.came_from = Put(@, successor, <<current, action>>),
                    !.frontier = Append(@, <<successor.g + h_value.value,
                                             st.counter, successor>>),
                    !.counter = @ + 1]
    ELSE st

\* a_star_search: the body of the for loop.
a_star_visit(st, current, successor, action, h_value) ==
    IF state_key(successor) \in st.explored THEN st
    ELSE IF state_key(successor) \notin DOMAIN st.g_values
            \/ successor.g < st.g_values[state_key(successor)]
    THEN IF h_value.exc # None
         THEN [st EXCEPT !.g_values = Put(@, state_key(successor), successor.g),
                         !.came_from = Put(@, successor, <<current, action>>),
                         !.exc = h_value.exc]
         ELSE [st EXCEPT !.g_values = Put(@, state_key(successor), successor.g),
                         !.came_from = Put(@, successor, <<current, action>>),
                         !.frontier = Append(@, <<successor.g + h_value.value,
                                                  st.counter, successor>>),
                         !.counter = @ + 1,
                         !.generated = @ + 1]
    ELSE st

\* The walk back of ehc handing its actions out newest first.
ehc_path_actions_newest_first(cf, s, root) ==
    LET back[current \in DOMAIN cf \cup {cf[x][1] : x \in DOMAIN cf} \cup {s}] ==
            IF current # root /\ current \in DOMAIN cf
            THEN <<cf[current][2]>> \o back[cf[current][1]]
            ELSE <<>>
    IN  back[s]

\* enforced_hill_climbing: the actions from the round's root to s, found by
\* walking back while s is not the root and has a predecessor.
ehc_path_actions(cf, s, root) ==
    LET back[current \in DOMAIN cf \cup {cf[x][1] : x \in DOMAIN cf} \cup {s}] ==
            IF current # root /\ current \in DOMAIN cf
            THEN <<cf[current][2]>> \o back[cf[current][1]]
            ELSE <<>>
    IN  Reverse(back[s])

\* What one pass of the ehc for loop works on; outcome tells how it ended:
\* "next" (go on), "goal" (return), "better" (break) or "raised".
EhcLoopState(fr, ex, cf, generated, pl, cs, ch) ==
    [frontier |-> fr, explored |-> ex, came_from |-> cf, generated |-> generated,
     plan |-> pl, current_state |-> cs, current_h |-> ch, outcome |-> "next",
     exc |-> None]

\* enforced_hill_climbing: the part of the loop body every new successor gets.
ehc_record(st, state, successor, action) ==
    [st EXCEPT !.explored = @ \cup {state_key(successor)},
               !.came_from = Put(@, successor, <<state, action>>),
               !.generated = @ + 1]

\* The for loop body of ehc moving on to a better state under the old bound.
ehc_visit_keeping_h(st, state, successor, action, maze, successor_h) ==
    IF state_key(successor) \in st.explored THEN st
    ELSE IF is_goal_state(maze, successor)
    THEN [ehc_record(st, state, successor, action) EXCEPT
             !.plan = @ \o ehc_path_actions(Put(st.came_from, successor, <<state, action>>),
                                            successor, st.current_state),
             !.outcome = "goal"]
    ELSE IF successor_h.exc # None
    THEN [ehc_record(st, state, successor, action) EXCEPT
             !.exc = successor_h.exc, !.outcome = "raised"]
    ELSE IF successor_h.value < st.current_h
    THEN [ehc_record(st, state, successor, action) EXCEPT
             !.plan = @ \o ehc_path_actions(Put(st.came_from, successor, <<state, action>>),
                                            successor, st.current_state),
             !.current_state = successor,
             !.outcome = "better"]
    ELSE [ehc_record(st, state, successor, action) EXCEPT
             !.frontier = Append(@, successor)]

\* The for loop body of ehc taking a successor that is no worse as better.
ehc_visit_unstrict(st, state, successor, action, maze, successor_h) ==
    IF state_key(successor) \in st.explored THEN st
    ELSE IF is_goal_state(maze, successor)
    THEN [ehc_record(st, state, successor, action) EXCEPT
             !.plan = @ \o ehc_path_actions(Put(st.came_from, successor, <<state, action>>),
                                            successor, st.current_state),
             !.outcome = "goal"]
    ELSE IF successor_h.exc # None
    THEN [ehc_record(st, state, successor, action) EXCEPT
             !.exc = successor_h.exc, !.outcome = "raised"]
    ELSE IF successor_h.value <= st.current_h
    THEN [ehc_record(st, state, successor, action) EXCEPT
             !.plan = @ \o ehc_path_actions(Put(st.came_from, successor, <<state, action>>),
                                            successor, st.current_state),
             !.current_state = successor,
             !.current_h = successor_h.value,
             !.outcome = "better"]
    ELSE [ehc_record(st, state, successor, action) EXCEPT
             !.frontier = Append(@, successor)]

\* enforced_hill_climbing: the body of the for loop, for one successor.
ehc_visit(st, state, successor, action, maze, successor_h) ==
    IF state_key(successor) \in st.explored THEN st
    ELSE IF is_goal_state(maze, successor)
    THEN [ehc_record(st, state, successor, action) EXCEPT
             !.plan = @ \o ehc_path_actions(Put(st.came_from, successor, <<state, action>>),
                                            successor, st.current_state),
             !.outcome = "goal"]
    ELSE IF successor_h.exc # None
    THEN [ehc_record(st, state, successor, action) EXCEPT
             !.exc = successor_h.exc, !.outcome = "raised"]
    ELSE IF successor_h.value < st.current_h
    THEN [ehc_record(st, state, successor, action) EXCEPT
             !.plan = @ \o ehc_path_actions(Put(st.came_from, successor, <<state, action>>),
                                            successor, st.current_state),
             !.current_state = successor,
             !.current_h = successor_h.value,
             !.outcome = "better"]
    ELSE [ehc_record(st, state, successor, action) EXCEPT
             !.frontier = Append(@, successor)]

(***************************************************************************)
(* run_search and the four searches, step by step: a pop of the while      *)
(* loop is one step, each pass of the for loop over the successors is one. *)
(***************************************************************************)
\* str.lower() on the algorithm names a caller passes.
Lower(name) ==
    CASE name = "BFS" -> "bfs"
      [] name = "DFS" -> "dfs"
      [] OTHER -> name

Calls ==
    {<<"bfs", None>>, <<"BFS", None>>, <<"bfs", "manhattan">>, <<"DFS", "zero">>,
     <<"dfs", None>>}
    \cup ({"greedy", "astar", "ehc"} \X (Heuristics \cup {None}))

\* A local name of a search before its first assignment.
Unbound == [unbound |-> TRUE]

Init ==
    /\ \E w \in Worlds :
          /\ world = w[1]
          /\ initial_state = w[2]
          /\ true_cost = TrueCosts(w[1], w[2])
    /\ \E c \in Calls : algorithm = c[1] /\ heuristic = c[2]
    /\ pc = "call"
    /\ result = SearchResult
    /\ frontier = <<>>
    /\ explored = {}
    /\ came_from = EmptyDict
    /\ g_values = EmptyDict
    /\ counter = 0
    /\ current_state = Unbound
    /\ current_h = 0
    /\ plan = <<>>
    /\ found_better = FALSE
    /\ popped = Unbound
    /\ succs = <<>>
    /\ error = None

inputs == <<world, initial_state, algorithm, heuristic, true_cost>>

ehc_vars == <<current_h, plan, found_better, popped>>

\* The variables after one pass of the for loop of bfs, greedy or a_star.
Visited(st, for_pc) ==
    /\ frontier' = st.frontier
    /\ explored' = st.explored
    /\ came_from' = st.came_from
    /\ g_values' = st.g_values
    /\ counter' = st.counter
    /\ result' = [result EXCEPT !.states_generated = st.generated]
    /\ error' = st.exc
    /\ pc' = IF st.exc # None THEN "raised" ELSE for_pc
    /\ succs' = Tail(succs)

\* run_search rejecting only after a result has been set up and the initial
\* state counted.
CallRejectedLate ==
    /\ pc = "call"
    /\ \/ Lower(algorithm) \notin {"bfs", "greedy", "astar", "ehc"}
       \/ Lower(algorithm) \in {"greedy", "astar", "ehc"} /\ heuristic = None
    /\ pc' = "raised"
    /\ error' = "ValueError"
    /\ result' = [SearchResult EXCEPT !.states_generated = 1]
    /\ UNCHANGED <<inputs, frontier, explored, came_from, g_values, counter,
                   current_state, ehc_vars, succs>>

\* run_search: an unknown algorithm, or a heuristic search without heuristic.
CallRejected ==
    /\ pc = "call"
    /\ \/ Lower(algorithm) \notin {"bfs", "greedy", "astar", "ehc"}
       \/ Lower(algorithm) \in {"greedy", "astar", "ehc"} /\ heuristic = None
    /\ pc' = "raised"
    /\ error' = "ValueError"
    /\ UNCHANGED <<inputs, result, frontier, explored, came_from, g_values, counter,
                   current_state, ehc_vars, succs>>

\* breadth_first_search up to its while loop.
CallBfs ==
    /\ pc = "call"
    /\ Lower(algorithm) = "bfs"
    /\ frontier' = <<initial_state>>
    /\ explored' = {state_key(initial_state)}
    /\ came_from' = EmptyDict
    /\ result' = [SearchResult EXCEPT !.states_generated = 1]
    /\ pc' = "bfs_loop"
    /\ UNCHANGED <<inputs, g_values, counter, current_state, ehc_vars, succs, error>>

\* One pop of the while loop: count, goal test, return on a goal.
BfsPop ==
    /\ pc = "bfs_loop"
    /\ frontier # <<>>
    /\ current_state' = Head(frontier)
    /\ frontier' = Tail(frontier)
    /\ IF is_goal_state(world, Head(frontier))
       THEN /\ result' = Succeeded([result EXCEPT !.states_expanded = @ + 1],
                                   came_from, Head(frontier))
            /\ pc' = "done"
            /\ UNCHANGED succs
       ELSE /\ result' = [result EXCEPT !.states_expanded = @ + 1]
            /\ succs' = get_successors(world, Head(frontier))
            /\ pc' = "bfs_for"
    /\ UNCHANGED <<inputs, explored, came_from, g_values, counter, ehc_vars, error>>

\* One pass of the for loop over the successors of the popped state.
BfsVisit ==
    /\ pc = "bfs_for"
    /\ succs # <<>>
    /\ Visited(bfs_visit(LoopState(frontier, explored, came_from, g_values, counter,
                                   result.states_generated),
                         current_state, Head(succs)[1], Head(succs)[2]),
               "bfs_for")
    /\ UNCHANGED <<inputs, current_state, ehc_vars>>

\* The for loop is through: back to the while test.
BfsForEnd ==
    /\ pc = "bfs_for"
    /\ succs = <<>>
    /\ pc' = "bfs_loop"
    /\ UNCHANGED <<inputs, result, frontier, explored, came_from, g_values, counter,
                   current_state, ehc_vars, succs, error>>

\* The frontier is empty: the function returns the result as it stands.
BfsExhausted ==
    /\ pc = "bfs_loop"
    /\ frontier = <<>>
    /\ pc' = "done"
    /\ UNCHANGED <<inputs, result, frontier, explored, came_from, g_values, counter,
                   current_state, ehc_vars, succs, error>>

\* greedy_best_first_search up to its while loop; the first heuristic call
\* comes before anything is counted.
CallGreedy ==
    /\ pc = "call"
    /\ Lower(algorithm) = "greedy"
    /\ heuristic # None
    /\ IF CallHeuristic(heuristic, world, initial_state).exc # None
       THEN /\ pc' = "raised"
            /\ error' = CallHeuristic(heuristic, world, initial_state).exc
            /\ UNCHANGED <<result, frontier, explored, came_from, counter>>
       ELSE /\ frontier' = << <<CallHeuristic(heuristic, world, initial_state).value,
                                0, initial_state>> >>
            /\ explored' = {state_key(initial_state)}
            /\ came_from' = EmptyDict
            /\ result' = [SearchResult EXCEPT !.states_generated = 1]
            /\ counter' = 1
            /\ pc' = "greedy_loop"
            /\ UNCHANGED error
    /\ UNCHANGED <<inputs, g_values, current_state, ehc_vars, succs>>

GreedyPop ==
    /\ pc = "greedy_loop"
    /\ frontier # <<>>
    /\ current_state' = frontier[HeapMinIndex(frontier)][3]
    /\ frontier' = HeapWithout(frontier, HeapMinIndex(frontier))
    /\ IF is_goal_state(world, frontier[HeapMinIndex(frontier)][3])
       THEN /\ result' = Succeeded([result EXCEPT !.states_expanded = @ + 1],
                                   came_from, frontier[HeapMinIndex(frontier)][3])
            /\ pc' = "done"
            /\ UNCHANGED succs
       ELSE /\ result' = [result EXCEPT !.states_expanded = @ + 1]
            /\ succs' = get_successors(world, frontier[HeapMinIndex(frontier)][3])
            /\ pc' = "greedy_for"
    /\ UNCHANGED <<inputs, explored, came_from, g_values, counter, ehc_vars, error>>

GreedyVisit ==
    /\ pc = "greedy_for"
    /\ succs # <<>>
    /\ Visited(greedy_visit(LoopState(frontier, explored, came_from, g_values, counter,
                                      result.states_generated),
                            current_state, Head(succs)[1], Head(succs)[2],
                            CallHeuristic(heuristic, world, Head(succs)[1])),
               "greedy_for")
    /\ UNCHANGED <<inputs, current_state, ehc_vars>>

GreedyForEnd ==
    /\ pc = "greedy_for"
    /\ succs = <<>>
    /\ pc' = "greedy_loop"
    /\ UNCHANGED <<inputs, result, frontier, explored, came_from, g_values, counter,
                   current_state, ehc_vars, succs, error>>

GreedyExhausted ==
    /\ pc = "greedy_loop"
    /\ frontier = <<>>
    /\ pc' = "done"
    /\ UNCHANGED <<inputs, result, frontier, explored, came_from, g_values, counter,
                   current_state, ehc_vars, succs, error>>

\* a_star_search up to its while loop.
CallAStar ==
    /\ pc = "call"
    /\ Lower(algorithm) = "astar"
    /\ heuristic # None
    /\ IF CallHeuristic(heuristic, world, initial_state).exc # None
       THEN /\ pc' = "raised"
            /\ error' = CallHeuristic(heuristic, world, initial_state).exc
            /\ UNCHANGED <<result, frontier, explored, came_from, g_values, counter>>
       ELSE /\ frontier' = << <<initial_state.g
                                  + CallHeuristic(heuristic, world, initial_state).value,
                                0, initial_state>> >>
            /\ explored' = {}
            /\ came_from' = EmptyDict
            /\ g_values' = Put(EmptyDict, state_key(initial_state), initial_state.g)
            /\ result' = [SearchResult EXCEPT !.states_generated = 1]
            /\ counter' = 1
            /\ pc' = "astar_loop"
            /\ UNCHANGED error
    /\ UNCHANGED <<inputs, current_state, ehc_vars, succs>>

\* One pop of a_star without the test for an explored key.
AStarPopReexpanding ==
    /\ pc = "astar_loop"
    /\ frontier # <<>>
    /\ current_state' = frontier[HeapMinIndex(frontier)][3]
    /\ frontier' = HeapWithout(frontier, HeapMinIndex(frontier))
    /\ explored' = explored \cup {state_key(frontier[HeapMinIndex(frontier)][3])}
    /\ IF is_goal_state(world, frontier[HeapMinIndex(frontier)][3])
       THEN /\ result' = Succeeded([result EXCEPT !.states_expanded = @ + 1],
                                   came_from, frontier[HeapMinIndex(frontier)][3])
            /\ pc' = "done"
            /\ UNCHANGED succs
       ELSE /\ result' = [result EXCEPT !.states_expanded = @ + 1]
            /\ succs' = get_successors(world, frontier[HeapMinIndex(frontier)][3])
            /\ pc' = "astar_for"
    /\ UNCHANGED <<inputs, came_from, g_values, counter, ehc_vars, error>>

\* One pop: an explored key is skipped, otherwise explored, counted, goal-tested.
AStarPop ==
    /\ pc = "astar_loop"
    /\ frontier # <<>>
    /\ current_state' = frontier[HeapMinIndex(frontier)][3]
    /\ frontier' = HeapWithout(frontier, HeapMinIndex(frontier))
    /\ IF state_key(frontier[HeapMinIndex(frontier)][3]) \in explored
       THEN /\ pc' = "astar_loop"
            /\ UNCHANGED <<explored, result, succs>>
       ELSE /\ explored' = explored \cup {state_key(frontier[HeapMinIndex(frontier)][3])}
            /\ IF is_goal_state(world, frontier[HeapMinIndex(frontier)][3])
               THEN /\ result' = Succeeded([result EXCEPT !.states_expanded = @ + 1],
                                           came_from, frontier[HeapMinIndex(frontier)][3])
                    /\ pc' = "done"
                    /\ UNCHANGED succs
               ELSE /\ result' = [result EXCEPT !.states_expanded = @ + 1]
                    /\ succs' = get_successors(world, frontier[HeapMinIndex(frontier)][3])
                    /\ pc' = "astar_for"
    /\ UNCHANGED <<inputs, came_from, g_values, counter, ehc_vars, error>>

AStarVisit ==
    /\ pc = "astar_for"
    /\ succs # <<>>
    /\ Visited(a_star_visit(LoopState(frontier, explored, came_from, g_values, counter,
                                      result.states_generated),
                            current_state, Head(succs)[1], Head(succs)[2],
                            CallHeuristic(heuristic, world, Head(succs)[1])),
               "astar_for")
    /\ UNCHANGED <<inputs, current_state, ehc_vars>>

AStarForEnd ==
    /\ pc = "astar_for"
    /\ succs = <<>>
    /\ pc' = "astar_loop"
    /\ UNCHANGED <<inputs, result, frontier, explored, came_from, g_values, counter,
                   current_state, ehc_vars, succs, error>>

\* The loop test of a_star going round on an empty frontier.
AStarExhaustedSpinning ==
    /\ pc = "astar_loop"
    /\ frontier = <<>>
    /\ UNCHANGED vars

AStarExhausted ==
    /\ pc = "astar_loop"
    /\ frontier = <<>>
    /\ pc' = "done"
    /\ UNCHANGED <<inputs, result, frontier, explored, came_from, g_values, counter,
                   current_state, ehc_vars, succs, error>>

\* enforced_hill_climbing up to its outer while loop.
CallEhc ==
    /\ pc = "call"
    /\ Lower(algorithm) = "ehc"
    /\ heuristic # None
    /\ IF CallHeuristic(heuristic, world, initial_state).exc # None
       THEN /\ pc' = "raised"
            /\ error' = CallHeuristic(heuristic, world, initial_state).exc
            /\ UNCHANGED <<result, current_h>>
       ELSE /\ current_h' = CallHeuristic(heuristic, world, initial_state).value
            /\ result' = [SearchResult EXCEPT !.states_generated = 1]
            /\ pc' = "ehc_outer"
            /\ UNCHANGED error
    /\ current_state' = initial_state
    /\ plan' = <<>>
    /\ UNCHANGED <<inputs, frontier, explored, came_from, g_values, counter,
                   found_better, popped, succs>>

\* The outer while test: return on a goal, else set up the round's search.
EhcRound ==
    /\ pc = "ehc_outer"
    /\ IF is_goal_state(world, current_state)
       THEN /\ result' = [result EXCEPT !.success = TRUE, !.plan = plan,
                                        !.plan_length = Len(plan)]
            /\ pc' = "done"
            /\ UNCHANGED <<frontier, explored, came_from, found_better>>
       ELSE /\ frontier' = <<current_state>>
            /\ explored' = {state_key(current_state)}
            /\ came_from' = EmptyDict
            /\ found_better' = FALSE
            /\ pc' = "ehc_inner"
            /\ UNCHANGED result
    /\ UNCHANGED <<inputs, g_values, counter, current_state, current_h, plan, popped,
                   succs, error>>

\* One pop of the round's inner while loop.
EhcPop ==
    /\ pc = "ehc_inner"
    /\ frontier # <<>> /\ ~found_better
    /\ popped' = Head(frontier)
    /\ frontier' = Tail(frontier)
    /\ result' = [result EXCEPT !.states_expanded = @ + 1]
    /\ succs' = get_successors(world, Head(frontier))
    /\ pc' = "ehc_for"
    /\ UNCHANGED <<inputs, explored, came_from, g_values, counter, current_state,
                   current_h, plan, found_better, error>>

\* The variables after one pass of the ehc for loop: returned with the goal,
\* out with an exception, out of the loop by break, or on to the next pass.
EhcVisited(st) ==
    /\ frontier' = st.frontier
    /\ explored' = st.explored
    /\ came_from' = st.came_from
    /\ plan' = st.plan
    /\ current_state' = st.current_state
    /\ current_h' = st.current_h
    /\ found_better' = (st.outcome = "better")
    /\ error' = st.exc
    /\ result' = IF st.outcome = "goal"
                 THEN [result EXCEPT !.states_generated = st.generated,
                                     !.success = TRUE,
                                     !.plan = st.plan,
                                     !.plan_length = Len(st.plan)]
                 ELSE [result EXCEPT !.states_generated = st.generated]
    /\ pc' = CASE st.outcome = "goal" -> "done"
               [] st.outcome = "raised" -> "raised"
               [] st.outcome = "better" -> "ehc_inner"
               [] OTHER -> "ehc_for"
    /\ succs' = Tail(succs)

\* One pass of the for loop over the successors of the popped state.
EhcVisit ==
    /\ pc = "ehc_for"
    /\ succs # <<>>
    /\ EhcVisited(ehc_visit(EhcLoopState(frontier, explored, came_from,
                                         result.states_generated, plan,
                                         current_state, current_h),
                            popped, Head(succs)[1], Head(succs)[2], world,
                            CallHeuristic(heuristic, world, Head(succs)[1])))
    /\ UNCHANGED <<inputs, g_values, counter, popped>>

EhcForEnd ==
    /\ pc = "ehc_for"
    /\ succs = <<>>
    /\ pc' = "ehc_inner"
    /\ UNCHANGED <<inputs, result, frontier, explored, came_from, g_values, counter,
                   current_state, ehc_vars, succs, error>>

\* The end of the inner loop starting another round where none was better.
EhcRoundEndRestart ==
    /\ pc = "ehc_inner"
    /\ frontier = <<>> \/ found_better
    /\ pc' = "ehc_outer"
    /\ UNCHANGED <<inputs, result, frontier, explored, came_from, g_values, counter,
                   current_state, ehc_vars, succs, error>>

\* The end of the inner loop handing the accumulated plan out on failure.
EhcRoundEndWithPlan ==
    /\ pc = "ehc_inner"
    /\ frontier = <<>> \/ found_better
    /\ pc' = IF ~found_better THEN "done" ELSE "ehc_outer"
    /\ result' = IF ~found_better
                 THEN [result EXCEPT !.plan = plan, !.plan_length = Len(plan)]
                 ELSE result
    /\ UNCHANGED <<inputs, frontier, explored, came_from, g_values, counter,
                   current_state, ehc_vars, succs, error>>

\* The inner loop has ended: fail without a better state, else the next round.
EhcRoundEnd ==
    /\ pc = "ehc_inner"
    /\ frontier = <<>> \/ found_better
    /\ pc' = IF ~found_better THEN "done" ELSE "ehc_outer"
    /\ UNCHANGED <<inputs, result, frontier, explored, came_from, g_values, counter,
                   current_state, ehc_vars, succs, error>>

Next ==
    \/ CallRejected
    \/ CallBfs \/ BfsPop \/ BfsVisit \/ BfsForEnd \/ BfsExhausted
    \/ CallGreedy \/ GreedyPop \/ GreedyVisit \/ GreedyForEnd \/ GreedyExhausted
    \/ CallAStar \/ AStarPop \/ AStarVisit \/ AStarForEnd \/ AStarExhausted
    \/ CallEhc \/ EhcRound \/ EhcPop \/ EhcVisit \/ EhcForEnd \/ EhcRoundEnd

Spec == Init /\ [][Next]_vars

\* A search runs to its end without suspension: every enabled step is taken.
FairSpec == Spec /\ WF_vars(Next)

(***************************************************************************)
(* main.py: validate_plan                                                  *)
(***************************************************************************)
\* The first successor whose label is the action, as <<state>>, or <<>>.
FirstMatch(successors, action) ==
    IF \E i \in 1..Len(successors) : successors[i][2] = action
    THEN <<successors[CHOOSE i \in 1..Len(successors) :
                         /\ successors[i][2] = action
                         /\ \A j \in 1..(i - 1) : successors[j][2] # action][1]>>
    ELSE <<>>

\* The states validate_plan walks through, the start included; the walk
\* ends early at an action no successor carries.
RECURSIVE ReplayFrom(_, _, _)
ReplayStep(maze, next_state, rest) ==
    IF next_state = <<>> THEN <<>> ELSE ReplayFrom(maze, next_state[1], rest)

ReplayFrom(maze, state, actions) ==
    IF actions = <<>> THEN <<state>>
    ELSE <<state>> \o ReplayStep(maze, FirstMatch(get_successors(maze, state), Head(actions)),
                                 Tail(actions))

ValidTrace(maze, trace, actions) ==
    Len(trace) = Len(actions) + 1 /\ is_goal_state(maze, trace[Len(trace)])

validate_plan(maze, start, actions) ==
    ValidTrace(maze, ReplayFrom(maze, start, actions), actions)

(***************************************************************************)
(* Properties                                                              *)
(***************************************************************************)
Returned == pc = "done"

IsBfs == Lower(algorithm) = "bfs"

\* The least number of actions from the initial state to a goal state.
OptimalLength == true_cost[Norm(initial_state)]

Solvable == OptimalLength # Unreachable

\* C1: whichever of the four algorithms and whichever heuristic ran, a result
\* with success = TRUE carries a plan that validate_plan replays from the
\* initial state, matching a successor at every step, into a goal state.
RoundTripValid ==
    (Returned /\ result.success) => validate_plan(world, initial_state, result.plan)

\* An enforced hill climbing run that succeeded with a plan of several
\* actions, put together from more than one round.
RoundTripWitness ==
    /\ Returned /\ result.success
    /\ algorithm = "ehc" /\ heuristic = "exact"
    /\ Len(result.plan) >= 4
    /\ validate_plan(world, initial_state, result.plan)

\* C2: a successful breadth-first search returns a plan whose length is the
\* least number of actions leading from the initial state to a goal state.
BfsOptimal ==
    (Returned /\ IsBfs /\ result.success) =>
        /\ result.plan_length = OptimalLength
        /\ Len(result.plan) = result.plan_length

\* A breadth-first search that succeeded on a maze with a door and two boxes.
BfsOptimalWitness ==
    /\ Returned /\ IsBfs /\ result.success
    /\ Len(initial_state.box_positions) = 2 /\ world.doors # <<>>
    /\ result.plan_length >= 8
    /\ result.plan_length = OptimalLength

\* C3: breadth-first search always returns; it returns success exactly when
\* a goal state can be reached from the initial state, and it returns
\* failure only from the loop test that finds the frontier empty.
BfsComplete ==
    /\ [](IsBfs /\ Returned => (result.success <=> Solvable))
    /\ [][IsBfs /\ pc' = "done" /\ pc # "done" /\ ~result'.success
            => pc = "bfs_loop" /\ frontier = <<>>]_vars
    /\ [](IsBfs /\ pc = "bfs_loop" /\ frontier = <<>> => ~Solvable)
    /\ (IsBfs ~> Returned)

\* A breadth-first search that returned failure with an empty frontier after
\* expanding every state of a maze without a plan.
BfsCompleteWitness ==
    /\ Returned /\ IsBfs /\ ~result.success
    /\ frontier = <<>>
    /\ ~Solvable
    /\ result.states_expanded = Cardinality(DOMAIN true_cost)

IsAStar == Lower(algorithm) = "astar"

IsEhc == Lower(algorithm) = "ehc"

\* The call has come to its end: returned a result or raised.
Ended == pc \in {"done", "raised"}

\* C4: on a maze with a plan, a_star_search with heuristic_manhattan returns
\* success with the plan length breadth_first_search returns on the same
\* world and initial state (OptimalLength, by BfsOptimal).
AStarManhattanMatchesBfs ==
    (IsAStar /\ heuristic = "manhattan" /\ Solvable /\ Ended) =>
        /\ Returned
        /\ result.success
        /\ result.plan_length = OptimalLength

\* The heuristic never overestimates the true remaining cost of a state the
\* run can come to.
Admissible(name) ==
    \A s \in DOMAIN true_cost :
        true_cost[s] # Unreachable =>
            /\ CallHeuristic(name, world, s).exc = None
            /\ CallHeuristic(name, world, s).value >= 0
            /\ CallHeuristic(name, world, s).value <= true_cost[s]

\* C5: with an admissible heuristic, consistent or not, a successful
\* a_star_search returns a plan of the least number of actions.
AStarAdmissibleOptimal ==
    (Returned /\ IsAStar /\ result.success /\ Admissible(heuristic)) =>
        result.plan_length = OptimalLength

\* C6: on every state the run can come to and from which a goal state can be
\* reached, heuristic_manhattan returns a natural number no greater than the
\* least number of actions to a goal state.
ManhattanAdmissible ==
    pc = "call" =>
        \A s \in DOMAIN true_cost :
            true_cost[s] # Unreachable =>
                /\ heuristic_manhattan(world, s).exc = None
                /\ heuristic_manhattan(world, s).value \in Nat
                /\ heuristic_manhattan(world, s).value <= true_cost[s]

RECURSIVE SumOver(_, _, _)
SumOver(set, f(_), acc) ==
    IF set = {} THEN acc
    ELSE LET x == CHOOSE y \in set : TRUE IN SumOver(set \ {x}, f, acc + f(x))

\* The value the Manhattan heuristic is stated to have.
ClaimedManhattan(maze, state) ==
    LET L1(a, b) == Abs(a[1] - b[1]) + Abs(a[2] - b[2])
        zone(id) == DictGet(maze.zones, id)
        misplaced == {p \in Range(state.box_positions) : p[2] # zone(p[1])}
        to_zone(p) == L1(p[2], zone(p[1]))
        base == IF state.carried_box # None
                THEN L1(state.soko_pos, zone(state.carried_box))
                ELSE IF misplaced = {} THEN 0
                ELSE MinOf({L1(state.soko_pos, p[2]) : p \in misplaced})
                         + SumOver(misplaced, to_zone, 0)
    IN  base + Cardinality(DictKeys(maze.doors) \ state.keys_owned)

\* Scenario C: boxes at distances 3 and 5 from the agent, 2 and 1 from their
\* zones, no door.
ScenarioC ==
    << <<S, E, E, B("A")>>,
       <<E, E, E, E>>,
       <<E, E, E, Z("A")>>,
       <<E, E, E, E>>,
       <<E, E, E, E>>,
       <<B("B"), E, E, E>>,
       <<Z("B"), E, E, E>> >>

\* C7: heuristic_manhattan returns, on every state, the stated value, and 6
\* on the initial state of Scenario C.
ManhattanValue ==
    pc = "call" =>
        /\ \A s \in DOMAIN true_cost :
              /\ heuristic_manhattan(world, s).exc = None
              /\ heuristic_manhattan(world, s).value = ClaimedManhattan(world, s)
        /\ heuristic_manhattan(parse_maze_file(ScenarioC)[1],
                               parse_maze_file(ScenarioC)[2]).exc = None
        /\ heuristic_manhattan(parse_maze_file(ScenarioC)[1],
                               parse_maze_file(ScenarioC)[2]).value = 6

IsScenarioA ==
    /\ world = parse_maze_file(ScenarioA)[1]
    /\ initial_state = parse_maze_file(ScenarioA)[2]

\* C8: on Scenario A breadth_first_search returns success with the plan
\* Right, Lift Box A, Right, Drop Box A, of length 4.
ScenarioAPlan ==
    (Returned /\ IsBfs /\ IsScenarioA) =>
        /\ result.success
        /\ result.plan = <<"Right", "Lift Box A", "Right", "Drop Box A">>
        /\ result.plan_length = 4

\* Breadth-first search has returned from Scenario A: agent at (0,0), box A at
\* (1,0), zone A at (2,0) on a 3x3 grid.
ScenarioAWitness ==
    /\ Returned /\ IsBfs /\ IsScenarioA /\ result.success
    /\ world.width = 3 /\ world.height = 3 /\ world.walls = {}
    /\ initial_state.soko_pos = <<0, 0>>
    /\ initial_state.box_positions = << <<"A", <<1, 0>> >> >>
    /\ world.zones = << <<"A", <<2, 0>> >> >>
    /\ Len(result.plan) = 4

\* The maze with the tile of door d walled up.
Blocked(maze, d) ==
    [maze EXCEPT !.walls = @ \cup {p[2] : p \in {q \in Range(maze.doors) : q[1] = d}}]

\* No goal state can be reached without entering the tile of door d.
EveryRouteCrosses(d) ==
    \A s \in StateSpace(Blocked(world, d), initial_state) : ~is_goal_state(world, s)

\* The key of door d can be picked up without entering the tile of door d.
KeyWithoutCrossing(d) ==
    \E s \in StateSpace(Blocked(world, d), initial_state) : d \in s.keys_owned

\* Every step of the replayed plan that moves the agent onto a door tile comes
\* after the Take Key action of that door's id.
TakenBeforeDoor(maze, trace, actions) ==
    /\ Len(trace) = Len(actions) + 1
    /\ \A i \in 1..Len(actions) :
          (/\ trace[i + 1].soko_pos # trace[i].soko_pos
           /\ door_id_at(maze, trace[i + 1].soko_pos) # None)
          => \E j \in 1..(i - 1) :
                actions[j] = "Take Key " \o door_id_at(maze, trace[i + 1].soko_pos)

\* C9: where every route to the goal crosses door D, breadth_first_search
\* returns failure unless D's key can be picked up without crossing D; every
\* plan it returns takes D's key before the first move onto D's tile.
DoorOrder ==
    (Returned /\ IsBfs) =>
        /\ result.success =>
              TakenBeforeDoor(world, ReplayFrom(world, initial_state, result.plan),
                              result.plan)
        /\ \A d \in DictKeys(world.doors) :
              (EveryRouteCrosses(d) /\ ~KeyWithoutCrossing(d)) => ~result.success

\* Breadth-first search has returned a plan through a door that every route
\* crosses, its key fetched first.
DoorOrderWitness ==
    /\ Returned /\ IsBfs /\ result.success
    /\ \E d \in DictKeys(world.doors) :
          /\ EveryRouteCrosses(d) /\ KeyWithoutCrossing(d)
          /\ \E j \in 1..Len(result.plan) : result.plan[j] = "Take Key " \o d
          /\ \E i \in 1..Len(result.plan) :
                door_id_at(world, ReplayFrom(world, initial_state,
                                             result.plan)[i + 1].soko_pos) = d

\* C10: all through a run of any of the four algorithms and in the result it
\* returns, states_generated >= states_expanded; the initial state is counted
\* as generated, once, before the first loop test, with nothing expanded.
CountersOrdered ==
    /\ [](result.states_generated >= result.states_expanded)
    /\ [](pc \notin {"call", "raised"} => result.states_generated >= 1)
    /\ [][pc = "call" /\ pc' \notin {"call", "raised"}
            => result'.states_generated = 1 /\ result'.states_expanded = 0]_vars

\* An enforced hill climbing run has returned after as many rounds as its plan
\* has actions, each round expanding its root, a state the round before had
\* counted as generated.
CountersWitness ==
    /\ Returned /\ IsEhc /\ heuristic = "exact"
    /\ result.success
    /\ Len(result.plan) >= 4
    /\ result.states_expanded = Len(result.plan)
    /\ result.states_generated >= result.states_expanded

\* One of the four algorithm names, with one of the two heuristics of
\* heuristics.py where the algorithm takes one.
ProvidedCall ==
    \/ IsBfs
    \/ /\ Lower(algorithm) \in {"greedy", "astar", "ehc"}
       /\ heuristic \in {"manhattan", "euclidean"}

\* C11: a call with a valid algorithm name and, where one is needed, one of
\* the two provided heuristics never ends in a runtime failure, and neither
\* heuristic fails on a state the run can come to.
NoRuntimeFailure ==
    /\ ProvidedCall => pc # "raised"
    /\ Ended =>
          \A s \in DOMAIN true_cost :
              /\ heuristic_manhattan(world, s).exc = None
              /\ heuristic_euclidean(world, s).exc = None

AlgorithmNames == {"bfs", "greedy", "astar", "ehc"}

\* The call names no algorithm once lower-cased, or names one that takes a
\* heuristic and gives none.
Rejectable ==
    \/ Lower(algorithm) \notin AlgorithmNames
    \/ Lower(algorithm) \in {"greedy", "astar", "ehc"} /\ heuristic = None

\* No search work has been done: nothing counted, queued, marked or recorded.
NoSearchWork ==
    /\ result = SearchResult
    /\ frontier = <<>> /\ explored = {}
    /\ came_from = EmptyDict /\ g_values = EmptyDict
    /\ current_state = Unbound /\ plan = <<>>

\* C12 as stated, the name compared as it is given: a call whose algorithm
\* name is not one of the four, or is greedy, astar or ehc without heuristic,
\* is rejected before any search work.
RejectedAsNamed ==
    (\/ algorithm \notin AlgorithmNames
     \/ algorithm \in {"greedy", "astar", "ehc"} /\ heuristic = None)
    => (pc \in {"call", "raised"} /\ NoSearchWork)

\* C12: a call whose lower-cased algorithm name is not one of the four, or is
\* greedy, astar or ehc without heuristic, raises ValueError in its first step
\* with no search work done and no result returned; no other call raises
\* ValueError, and bfs runs with or without a heuristic.
RejectedBeforeWork ==
    /\ [][pc = "call" /\ Rejectable =>
            pc' = "raised" /\ error' = "ValueError" /\ NoSearchWork']_vars
    /\ [](Rejectable => pc \in {"call", "raised"} /\ NoSearchWork)
    /\ [](error = "ValueError" => Rejectable)
    /\ [](IsBfs => pc # "raised")
    /\ [][pc = "call" /\ IsBfs => pc' = "bfs_loop"]_vars

\* A call naming an unknown algorithm has been rejected, nothing done.
RejectedWitness ==
    /\ pc = "raised" /\ error = "ValueError"
    /\ algorithm = "DFS" /\ heuristic = "zero"
    /\ NoSearchWork

\* The loop test of bfs, greedy or a_star finds the frontier empty, or an ehc
\* round has emptied its frontier without finding a better state.
Exhausted ==
    \/ pc \in {"bfs_loop", "greedy_loop", "astar_loop"} /\ frontier = <<>>
    \/ pc = "ehc_inner" /\ frontier = <<>> /\ ~found_better

\* C13: a search that runs out of states returns in its next step, without
\* raising, a result with success = FALSE, an empty plan and plan_length 0,
\* the two counters as they stood; every failure returned has this form, in
\* ehc whatever the rounds before had added to the accumulated plan.
ExhaustionIsValue ==
    /\ [][Exhausted =>
            /\ pc' = "done" /\ error' = None
            /\ result' = result
            /\ ~result'.success /\ result'.plan = <<>> /\ result'.plan_length = 0]_vars
    /\ [](Returned /\ ~result.success =>
            result.plan = <<>> /\ result.plan_length = 0 /\ error = None)
    /\ [][pc' = "done" /\ pc # "done" /\ ~result'.success => Exhausted]_vars

\* Enforced hill climbing has returned failure from a later round, actions of
\* earlier rounds in its accumulated plan.
ExhaustionWitness ==
    /\ Returned /\ IsEhc /\ ~result.success
    /\ plan # <<>>
    /\ result.plan = <<>> /\ result.plan_length = 0
    /\ result.states_expanded > Len(plan)
    /\ result.states_generated > 1

\* Some box of the initial state has no zone in the world.
Malformed ==
    \E i \in 1..Len(initial_state.box_positions) :
        initial_state.box_positions[i][1] \notin DictKeys(world.zones)

\* C14: in a world where some box has no zone, no state the run can come to
\* is a goal state, and every algorithm (run with a provided heuristic where
\* it takes one) ends by returning success = FALSE, never by raising.
MalformedFailsCleanly ==
    (Malformed /\ ProvidedCall) =>
        /\ \A s \in DOMAIN true_cost : ~is_goal_state(world, s)
        /\ pc # "raised"
        /\ Returned => ~result.success

Labels(successors) == [i \in 1..Len(successors) |-> successors[i][2]]

\* The ids of a set in ascending order.
RECURSIVE Ascending(_)
Ascending(ids) ==
    IF ids = {} THEN <<>>
    ELSE LET least == CHOOSE a \in ids : \A b \in ids : IdRank(a) <= IdRank(b)
         IN  <<least>> \o Ascending(ids \ {least})

\* The tile is in the grid, no wall, and no door whose id the agent lacks.
Passable(maze, state, target) ==
    /\ target[1] >= 0 /\ target[1] < maze.width
    /\ target[2] >= 0 /\ target[2] < maze.height
    /\ target \notin maze.walls
    /\ \A i \in 1..Len(maze.doors) :
          maze.doors[i][2] = target => maze.doors[i][1] \in state.keys_owned

\* The labels a state is stated to have, in the stated order.
StatedLabels(maze, state) ==
    LET x == state.soko_pos[1]
        y == state.soko_pos[2]
        dirs == << <<"Left", <<x - 1, y>> >>, <<"Right", <<x + 1, y>> >>,
                   <<"Up", <<x, y - 1>> >>, <<"Down", <<x, y + 1>> >> >>
        open == SelectSeq(dirs, LAMBDA d : Passable(maze, state, d[2]))
        moves == [i \in 1..Len(open) |-> open[i][1]]
        keys_here == {p[1] : p \in {q \in Range(state.keys_on_floor) :
                                      q[2] = state.soko_pos}}
        boxes_here == {p[1] : p \in {q \in Range(state.box_positions) :
                                       q[2] = state.soko_pos}}
        takes == [i \in 1..Len(Ascending(keys_here)) |->
                    "Take Key " \o Ascending(keys_here)[i]]
        lifts == IF state.carried_box = None
                 THEN [i \in 1..Len(Ascending(boxes_here)) |->
                         "Lift Box " \o Ascending(boxes_here)[i]]
                 ELSE <<>>
        drops == IF /\ state.carried_box # None
                    /\ state.carried_box \in DictKeys(maze.zones)
                    /\ DictGet(maze.zones, state.carried_box) = state.soko_pos
                 THEN <<"Drop Box " \o state.carried_box>>
                 ELSE <<>>
    IN  moves \o takes \o lifts \o drops

\* C16: on every state a run can come to, get_successors returns the moves
\* Left, Right, Up, Down that are legal, then Take Key for the floor keys on
\* the agent's tile by ascending id, then Lift Box for the boxes on the tile
\* by ascending id when nothing is carried, then Drop Box; no label twice.
SuccessorOrder ==
    pc = "call" =>
        \A s \in DOMAIN true_cost :
            /\ Labels(get_successors(world, s)) = StatedLabels(world, s)
            /\ \A i, j \in 1..Len(get_successors(world, s)) :
                  i # j => get_successors(world, s)[i][2] # get_successors(world, s)[j][2]

\* A search has popped a state with a legal move, two keys and two boxes on
\* the agent's tile and holds its successors.
SuccessorOrderWitness ==
    /\ pc = "bfs_for"
    /\ Labels(succs) = <<"Right", "Take Key 1", "Take Key 2", "Lift Box A", "Lift Box B">>
    /\ succs = get_successors(world, current_state)

\* The tiles of the grid and the ring of tiles around it.
Targets(maze) == (0 - 1..maze.width) \X (0 - 1..maze.height)

\* The neighbouring tile a move label leads to.
Neighbour(pos, label) ==
    CASE label = "Left" -> <<pos[1] - 1, pos[2]>>
      [] label = "Right" -> <<pos[1] + 1, pos[2]>>
      [] label = "Up" -> <<pos[1], pos[2] - 1>>
      [] label = "Down" -> <<pos[1], pos[2] + 1>>

\* C17: on every state a run can come to, can_move_to holds of a tile exactly
\* when the tile is in the grid, is no wall and is no door whose id is not in
\* keys_owned; get_successors has a move for a direction exactly when
\* can_move_to holds of the neighbouring tile, and the move leads there.
MoveLegality ==
    pc = "call" =>
        \A s \in DOMAIN true_cost :
            /\ \A target \in Targets(world) :
                  can_move_to(world, s, target) <=> Passable(world, s, target)
            /\ \A label \in {"Left", "Right", "Up", "Down"} :
                  /\ (\E i \in 1..Len(get_successors(world, s)) :
                         get_successors(world, s)[i][2] = label)
                     <=> can_move_to(world, s, Neighbour(s.soko_pos, label))
                  /\ \A i \in 1..Len(get_successors(world, s)) :
                        get_successors(world, s)[i][2] = label =>
                            get_successors(world, s)[i][1].soko_pos
                                = Neighbour(s.soko_pos, label)

\* A search has popped a state whose agent stands on the tile of a door, in
\* a maze with walls: the move onto it was legal with the key owned.
MoveLegalityWitness ==
    /\ pc = "bfs_for"
    /\ world.walls # {}
    /\ door_id_at(world, current_state.soko_pos) # None
    /\ door_id_at(world, current_state.soko_pos) \in current_state.keys_owned
    /\ \E i \in 1..Len(succs) : succs[i][2] \in {"Left", "Right", "Up", "Down"}

\* Every zone has its box on it.
ZonesFilled(maze, state) ==
    \A id \in DictKeys(maze.zones) :
        /\ id \in DictKeys(state.box_positions)
        /\ DictGet(state.box_positions, id) = DictGet(maze.zones, id)

\* Every box has a zone and lies on it.
BoxesHome(maze, state) ==
    \A id \in DictKeys(state.box_positions) :
        /\ id \in DictKeys(maze.zones)
        /\ DictGet(state.box_positions, id) = DictGet(maze.zones, id)

\* C18 as stated: the goal test holds exactly when every zone has its box.
GoalIsZonesFilled ==
    pc = "call" =>
        \A s \in DOMAIN true_cost : is_goal_state(world, s) <=> ZonesFilled(world, s)

\* The states that differ from s in what is carried, where the agent stands
\* and which keys it owns.
Variants(maze, s) ==
    {[s EXCEPT !.carried_box = c, !.soko_pos = p, !.keys_owned = k] :
        c \in DictKeys(s.box_positions) \cup {None},
        p \in (0..maze.width - 1) \X (0..maze.height - 1),
        k \in SUBSET (s.keys_owned \cup DictKeys(s.keys_on_floor))}

\* C18: the goal test holds exactly when every box of the state has a zone
\* and lies on it, whatever is carried, wherever the agent stands and whatever
\* keys it owns; a search returns success only with a plan into such a state.
GoalIsBoxesHome ==
    /\ pc = "call" =>
          \A s \in DOMAIN true_cost :
              /\ is_goal_state(world, s) <=> BoxesHome(world, s)
              /\ \A v \in Variants(world, s) :
                    is_goal_state(world, v) <=> is_goal_state(world, s)
    /\ (Returned /\ result.success) =>
          BoxesHome(world, ReplayFrom(world, initial_state, result.plan)[Len(result.plan) + 1])

\* A search has returned success in a world with a zone that has no box.
GoalWitness ==
    /\ Returned /\ result.success /\ result.plan # <<>>
    /\ \E id \in DictKeys(world.zones) : id \notin DictKeys(initial_state.box_positions)
    /\ BoxesHome(world, ReplayFrom(world, initial_state, result.plan)[Len(result.plan) + 1])
    /\ ~ZonesFilled(world, ReplayFrom(world, initial_state, result.plan)[Len(result.plan) + 1])

IsGreedy == Lower(algorithm) = "greedy"

\* The states bfs or greedy has put on the frontier so far: the initial state
\* and every successor given a predecessor.
Enqueued == DOMAIN came_from \cup {initial_state}

\* The states waiting on the frontier.
Waiting ==
    IF IsBfs THEN Range(frontier) ELSE {frontier[i][3] : i \in 1..Len(frontier)}

\* C19: in a run of bfs or greedy the key of a state does not change with g,
\* no two states put on the frontier share a key, explored is the set of
\* their keys, the frontier holds no state twice, and every state put on the
\* frontier is waiting there or has been expanded, once: the numbers of
\* expanded and waiting states add up to the number of keys.
Deduplicated ==
    ((IsBfs \/ IsGreedy) /\ pc \notin {"call", "raised"}) =>
        /\ \A s \in Enqueued :
              /\ state_key(s) = state_key([s EXCEPT !.g = @ + 1])
              /\ \A t \in Enqueued : state_key(s) = state_key(t) => s = t
        /\ explored = {state_key(s) : s \in Enqueued}
        /\ Waiting \subseteq Enqueued
        /\ Cardinality(Waiting) = Len(frontier)
        /\ result.states_generated = Cardinality(explored)
        /\ result.states_expanded + Len(frontier) = result.states_generated

\* Greedy is back at its while test, and a state it has expanded has a
\* successor that reaches, with a lower g, the key of a state it had put on
\* the frontier before: the cheaper path was dropped.
DeduplicatedWitness ==
    /\ IsGreedy /\ pc = "greedy_loop"
    /\ \E p \in Enqueued \ Waiting, s \in DOMAIN came_from :
          \E i \in 1..Len(get_successors(world, p)) :
              /\ state_key(get_successors(world, p)[i][1]) = state_key(s)
              /\ get_successors(world, p)[i][1].g < s.g
              /\ get_successors(world, p)[i][1] \notin Enqueued

\* The key ids of the initial state: make_initial_state owns none of them.
InitialKeyIds == DictKeys(initial_state.keys_on_floor)

\* The keys owned and the keys on the floor split the initial key ids.
KeysSplit(state) ==
    /\ state.keys_owned \cap DictKeys(state.keys_on_floor) = {}
    /\ state.keys_owned \cup DictKeys(state.keys_on_floor) = InitialKeyIds

\* C20: in every state get_successors can reach from the initial state the
\* keys owned and the ids of the keys on the floor are disjoint and together
\* are the initial key ids, and no successor owns fewer keys than its
\* predecessor; the same holds of every state a search records and of the
\* predecessor it records for it.
KeysConserved ==
    /\ pc = "call" =>
          \A s \in DOMAIN true_cost :
              /\ KeysSplit(s)
              /\ \A i \in 1..Len(get_successors(world, s)) :
                    s.keys_owned \subseteq get_successors(world, s)[i][1].keys_owned
    /\ \A s \in DOMAIN came_from :
          /\ KeysSplit(s)
          /\ came_from[s][1].keys_owned \subseteq s.keys_owned

\* A search has recorded a state that owns one key while another key still
\* lies on the floor, reached by Take Key from a state that owned none.
KeysConservedWitness ==
    \E s \in DOMAIN came_from :
        /\ s.keys_owned # {} /\ s.keys_on_floor # <<>>
        /\ came_from[s][1].keys_owned = {}
        /\ came_from[s][2] = "Take Key " \o (CHOOSE k \in s.keys_owned : TRUE)

\* The state with its g set to n.
AtDepth(state, n) == [state EXCEPT !.g = n]

\* The depths the successor rule is tried at.
MaxDepth == 2

\* C21: the initial state has g = 0, carries nothing and owns no key; every
\* successor get_successors returns for a state has the state's g plus one;
\* so every state a search records has the g of its predecessor plus one, and
\* the n-th state along a returned plan has g = n.
StepCount ==
    /\ initial_state.g = 0
    /\ initial_state.carried_box = None
    /\ initial_state.keys_owned = {}
    /\ pc = "call" =>
          \A s \in DOMAIN true_cost, n \in 0..MaxDepth :
              \A i \in 1..Len(get_successors(world, AtDepth(s, n))) :
                  get_successors(world, AtDepth(s, n))[i][1].g = n + 1
    /\ \A s \in DOMAIN came_from : s.g = came_from[s][1].g + 1
    /\ (Returned /\ result.success) =>
          \A n \in 0..Len(result.plan) :
              ReplayFrom(world, initial_state, result.plan)[n + 1].g = n

\* A search has returned a plan of at least four actions that holds a move,
\* a lift and a drop, and the state it ends in has g equal to the plan length.
StepCountWitness ==
    /\ Returned /\ result.success /\ Len(result.plan) >= 4
    /\ ReplayFrom(world, initial_state, result.plan)[Len(result.plan) + 1].g
          = result.plan_length
    /\ \E i \in 1..Len(result.plan) : result.plan[i] \in {"Left", "Right", "Up", "Down"}
    /\ \E i \in 1..Len(result.plan) :
          ReplayFrom(world, initial_state, result.plan)[i + 1].carried_box # None

\* The value the run's heuristic gives a state.
H(state) == CallHeuristic(heuristic, world, state).value

\* A state that ends a round of ehc: a goal, or below the round's current_h.
Improving(state) == is_goal_state(world, state) \/ H(state) < current_h

\* A round of ehc is under way.
InRound == IsEhc /\ pc \in {"ehc_inner", "ehc_for"}

\* The round's queue is in breadth-first order: depths never fall along it,
\* span at most one level, and nothing generated lies deeper than one level
\* below the state being expanded.
BreadthFirstRound ==
    /\ \A i \in 1..Len(frontier) - 1 : frontier[i].g <= frontier[i + 1].g
    /\ pc = "ehc_for" =>
          /\ \A i \in 1..Len(frontier) : popped.g <= frontier[i].g
          /\ \A s \in DOMAIN came_from : s.g <= popped.g + 1

\* One pass of the round's for loop: nothing generated before in the round is
\* improving; a new successor that is a goal ends the call with success; a new
\* successor below current_h becomes current_state and ends the round; any
\* other successor leaves current_state and current_h as they are.
FirstImprovementStep ==
    (IsEhc /\ pc = "ehc_for" /\ succs # <<>>) =>
        LET successor == Head(succs)[1]
            fresh == state_key(successor) \notin explored
        IN  /\ \A s \in DOMAIN came_from : ~Improving(s)
            /\ (fresh /\ is_goal_state(world, successor)) =>
                  /\ pc' = "done" /\ result'.success
                  /\ ReplayFrom(world, initial_state, result'.plan)[Len(result'.plan) + 1]
                        = successor
            /\ (fresh /\ ~is_goal_state(world, successor) /\ H(successor) < current_h) =>
                  /\ current_state' = successor
                  /\ current_h' = H(successor)
                  /\ found_better' /\ pc' = "ehc_inner"
            /\ ~(fresh /\ Improving(successor)) =>
                  /\ current_state' = current_state /\ current_h' = current_h
                  /\ ~found_better' /\ pc' = "ehc_for"

\* Once a better state is found the round is over: no further pop, and the
\* state found stays current_state into the next round.
RoundOverStep ==
    (IsEhc /\ pc = "ehc_inner" /\ found_better) =>
        /\ pc' = "ehc_outer"
        /\ current_state' = current_state /\ current_h' = current_h
        /\ result'.states_expanded = result.states_expanded

\* C22: each round of ehc generates states in breadth-first order from
\* current_state and ends at the first new state that is a goal or has a
\* heuristic value strictly below current_h: nothing generated before it in
\* the round is a goal or below current_h, and that state becomes
\* current_state, or the call returns success at once when it is a goal.
FirstImprovement ==
    /\ [](InRound => BreadthFirstRound)
    /\ [][FirstImprovementStep /\ RoundOverStep]_vars

\* A round has just ended at a better state, which has become current_state,
\* while a successor not yet looked at in the same pass is new and better
\* still.
FirstImprovementWitness ==
    /\ IsEhc /\ pc = "ehc_inner" /\ found_better
    /\ current_state \in DOMAIN came_from
    /\ \E i \in 1..Len(succs) :
          /\ state_key(succs[i][1]) \notin explored
          /\ H(succs[i][1]) < current_h

\* The keys of the states get_successors can reach from a state.
ReachableKeys(state) == {state_key(s) : s \in Closure(world, {Norm(state)}, {Norm(state)})}

\* A round of ehc has run out of states without finding a better one.
RoundExhausted == IsEhc /\ pc = "ehc_inner" /\ frontier = <<>> /\ ~found_better

\* The exhausted round has generated every state its root can reach, none of
\* them a goal or below current_h.
NothingBetter ==
    /\ explored = ReachableKeys(current_state)
    /\ \A s \in DOMAIN came_from : ~Improving(s)
    /\ ~is_goal_state(world, current_state)

\* The step out of an exhausted round returns the result as it stands, with
\* success false, and leaves current_state alone.
GiveUpStep ==
    RoundExhausted =>
        /\ pc' = "done"
        /\ result' = result /\ ~result.success
        /\ current_state' = current_state /\ plan' = plan

\* current_state changes only to a state with a lower heuristic value, so no
\* earlier current_state comes back.
DescentStep ==
    (IsEhc /\ pc \notin {"call", "raised"} /\ current_state' # current_state) =>
        current_h' < current_h

\* C23: when a round of ehc has generated every state reachable from
\* current_state without meeting a goal or a state below current_h, the call
\* returns success = false at once: no other round starts, and current_state
\* never goes back to an earlier one.
NoBacktracking ==
    /\ [](RoundExhausted => NothingBetter)
    /\ []((IsEhc /\ Returned /\ ~result.success) => (frontier = <<>> /\ NothingBetter))
    /\ [][GiveUpStep /\ DescentStep]_vars

\* ehc has returned failure after rounds that did find better states: the
\* plan it had built is not empty and current_state is not the initial state.
NoBacktrackingWitness ==
    /\ IsEhc /\ Returned /\ ~result.success
    /\ plan # <<>> /\ current_state # initial_state
    /\ frontier = <<>> /\ explored = ReachableKeys(current_state)

MoveNames == {"Left", "Right", "Up", "Down"}

TakeNames == {"Take Key " \o k : k \in InitialKeyIds}

InitialBoxIds == DictKeys(initial_state.box_positions)

LiftNames == {"Lift Box " \o b : b \in InitialBoxIds}

DropNames == {"Drop Box " \o b : b \in InitialBoxIds}

\* What the successor t of s under the named action may differ in.
Frame(s, t, action) ==
    CASE action \in MoveNames ->
            t = [s EXCEPT !.soko_pos = t.soko_pos, !.g = t.g]
      [] action \in TakeNames ->
            t = [s EXCEPT !.keys_owned = t.keys_owned,
                          !.keys_on_floor = t.keys_on_floor, !.g = t.g]
      [] action \in LiftNames ->
            t = [s EXCEPT !.carried_box = t.carried_box, !.g = t.g]
      [] action \in DropNames ->
            /\ t = [s EXCEPT !.carried_box = t.carried_box,
                             !.box_positions = t.box_positions, !.g = t.g]
            /\ Len(t.box_positions) = Len(s.box_positions)
            /\ \A i \in 1..Len(s.box_positions) :
                  /\ t.box_positions[i][1] = s.box_positions[i][1]
                  /\ action # "Drop Box " \o s.box_positions[i][1]
                        => t.box_positions[i] = s.box_positions[i]
      [] OTHER -> FALSE

\* C24: a move successor differs from its source only in the agent's position
\* and g; a Take Key successor only in keys_owned, keys_on_floor and g; a Lift
\* Box successor only in carried_box and g, box_positions staying as it is
\* then and through the moves made while carrying; a Drop Box successor only
\* in carried_box, the dropped box's entry of box_positions and g.  It holds
\* of every successor of every reachable state and of every step a search
\* records.
ActionFrames ==
    /\ pc = "call" =>
          \A s \in DOMAIN true_cost :
              \A i \in 1..Len(get_successors(world, s)) :
                  Frame(s, get_successors(world, s)[i][1], get_successors(world, s)[i][2])
    /\ \A t \in DOMAIN came_from : Frame(came_from[t][1], t, came_from[t][2])

\* A search has recorded a step of each kind: a move made while carrying a
\* box, a Take Key, a Lift Box and a Drop Box.
ActionFramesWitness ==
    /\ \E t \in DOMAIN came_from :
          came_from[t][2] \in MoveNames /\ came_from[t][1].carried_box # None
    /\ \E t \in DOMAIN came_from : came_from[t][2] \in TakeNames
    /\ \E t \in DOMAIN came_from : came_from[t][2] \in LiftNames
    /\ \E t \in DOMAIN came_from :
          /\ came_from[t][2] \in DropNames
          /\ t.box_positions # came_from[t][1].box_positions

\* The successors get_successors returns under one action name.
Under(maze, state, action) ==
    {p[1] : p \in {q \in Range(get_successors(maze, state)) : q[2] = action}}

\* The ids boxes and zones go by in the run's world.
AllBoxIds == InitialBoxIds \cup DictKeys(world.zones)

\* Drop Box and Lift Box are offered in a state exactly as stated.
LiftDropRule(s) ==
    \A id \in AllBoxIds :
        /\ Under(world, s, "Drop Box " \o id) # {}
              <=> (s.carried_box = id /\ DictGet(world.zones, id) = s.soko_pos)
        /\ \A t \in Under(world, s, "Drop Box " \o id) :
              /\ t.carried_box = None
              /\ DictGet(t.box_positions, id) = DictGet(world.zones, id)
              /\ t.soko_pos = DictGet(world.zones, id)
        /\ Under(world, s, "Lift Box " \o id) # {}
              <=> (s.carried_box = None /\ DictGet(s.box_positions, id) = s.soko_pos)
        /\ \A t \in Under(world, s, "Lift Box " \o id) : t.carried_box = id

\* C25: a Drop Box successor is generated exactly when the box is carried and
\* the agent stands on the box's zone, and it carries nothing and has the box
\* on its zone; a Lift Box successor is generated exactly when nothing is
\* carried and the box's recorded position is the agent's; so a carried box
\* is put down only on its own zone, and a box is lifted only with free hands.
LiftDrop ==
    /\ pc = "call" => \A s \in DOMAIN true_cost : LiftDropRule(s)
    /\ \A t \in DOMAIN came_from :
          /\ t.carried_box \in InitialBoxIds \cup {None}
          /\ came_from[t][2] \in DropNames =>
                /\ came_from[t][2] = "Drop Box " \o came_from[t][1].carried_box
                /\ t.soko_pos = DictGet(world.zones, came_from[t][1].carried_box)
          /\ came_from[t][2] \in LiftNames => came_from[t][1].carried_box = None

\* A search has recorded a Drop Box on the box's zone, and a state that
\* carries a box on the tile of another box off the carried box's zone, where
\* neither a Drop Box nor a Lift Box is offered.
LiftDropWitness ==
    /\ \E t \in DOMAIN came_from : came_from[t][2] \in DropNames
    /\ \E t \in DOMAIN came_from :
          /\ t.carried_box # None
          /\ t.soko_pos # DictGet(world.zones, t.carried_box)
          /\ \E i \in 1..Len(t.box_positions) :
                /\ t.box_positions[i][2] = t.soko_pos
                /\ t.box_positions[i][1] # t.carried_box
          /\ \A i \in 1..Len(get_successors(world, t)) :
                get_successors(world, t)[i][2] \notin DropNames \cup LiftNames

\* The states a_star has pushed on the frontier so far.
Pushed == DOMAIN came_from \cup {initial_state}

\* The least element of a non-empty set of numbers.
Least(set) == CHOOSE m \in set : \A n \in set : m <= n

\* The best-g map holds, for each key, the least g of the pushed states with
\* that key.
BestGRecorded ==
    /\ DOMAIN g_values = {state_key(s) : s \in Pushed}
    /\ \A k \in DOMAIN g_values :
          g_values[k] = Least({s.g : s \in {p \in Pushed : state_key(p) = k}})

\* One pass of the for loop of a_star pushes the successor exactly when its
\* key has no best g yet or its g is below the best g recorded.
EnqueueStep ==
    (IsAStar /\ pc = "astar_for" /\ succs # <<>>) =>
        LET successor == Head(succs)[1]
            key == state_key(successor)
        IN  (Len(frontier') = Len(frontier) + 1 /\ frontier'[Len(frontier')][3] = successor)
                <=> (key \notin DOMAIN g_values \/ successor.g < g_values[key])

\* The same pass as the code has it: a successor whose key is explored is
\* passed over before its g is looked at.
EnqueueStepUnexplored ==
    (IsAStar /\ pc = "astar_for" /\ succs # <<>>) =>
        LET successor == Head(succs)[1]
            key == state_key(successor)
        IN  (Len(frontier') = Len(frontier) + 1 /\ frontier'[Len(frontier')][3] = successor)
                <=> /\ key \notin explored
                    /\ key \notin DOMAIN g_values \/ successor.g < g_values[key]

\* C26: a_star pushes a generated successor exactly when its key has never
\* been seen or its g is strictly below the best g recorded for the key, and
\* the best-g map holds for each key the least g pushed so far.
AStarEnqueueRule ==
    /\ []((IsAStar /\ pc \in {"astar_loop", "astar_for", "done"}) => BestGRecorded)
    /\ [][EnqueueStep]_vars

\* The enqueue rule with the explored keys left out of it.
AStarEnqueueRuleUnexplored ==
    /\ []((IsAStar /\ pc \in {"astar_loop", "astar_for", "done"}) => BestGRecorded)
    /\ [][EnqueueStepUnexplored]_vars

\* a_star is at its while test with an entry to pop.
AStarAtPop == IsAStar /\ pc = "astar_loop" /\ frontier # <<>>

\* The state the next pop of the heap brings out.
NextPopped == frontier[HeapMinIndex(frontier)][3]

\* A key enters explored only by a pop: the popped state's key, counted as
\* one expansion, and goal-tested.
ExploreStep ==
    (IsAStar /\ explored' # explored) =>
        /\ AStarAtPop
        /\ state_key(NextPopped) \notin explored
        /\ explored' = explored \cup {state_key(NextPopped)}
        /\ current_state' = NextPopped
        /\ result'.states_expanded = result.states_expanded + 1
        /\ IF is_goal_state(world, NextPopped)
           THEN pc' = "done" /\ result'.success
           ELSE pc' = "astar_for" /\ succs' = get_successors(world, NextPopped)

\* A popped state whose key is explored is dropped: nothing is counted,
\* tested or expanded, and the loop goes on.
StaleStep ==
    (AStarAtPop /\ state_key(NextPopped) \in explored) =>
        /\ Len(frontier') = Len(frontier) - 1
        /\ explored' = explored /\ result' = result
        /\ succs' = succs /\ came_from' = came_from /\ g_values' = g_values
        /\ pc' = "astar_loop"

\* C27: in a_star a key enters explored only when a state with that key is
\* popped and goal-tested; a popped state whose key is explored already is
\* dropped without goal test, expansion or count; so states_expanded is the
\* size of explored throughout, and every key is expanded at most once.
ExploredDiscipline ==
    /\ []((IsAStar /\ pc \in {"astar_loop", "astar_for", "done"}) =>
             result.states_expanded = Cardinality(explored))
    /\ [][ExploreStep /\ StaleStep]_vars

\* a_star has just dropped a stale entry: it has popped more entries than it
\* has expanded, and the state it popped last was pushed with a g above the
\* best g of its key.
ExploredDisciplineWitness ==
    /\ IsAStar /\ pc = "astar_loop"
    /\ counter - Len(frontier) > result.states_expanded
    /\ state_key(current_state) \in explored
    /\ current_state.g > g_values[state_key(current_state)]

\* greedy or a_star is in its loop.
InHeapLoop ==
    \/ IsGreedy /\ pc \in {"greedy_loop", "greedy_for"}
    \/ IsAStar /\ pc \in {"astar_loop", "astar_for"}

\* The priority an entry for a state is pushed with.
Priority(state) == IF IsGreedy THEN H(state) ELSE state.g + H(state)

\* Every entry carries its state's priority and a counter of its own, below
\* the next counter to hand out and rising in push order.
CountersUnique ==
    /\ \A i \in 1..Len(frontier) :
          /\ frontier[i][1] = Priority(frontier[i][3])
          /\ frontier[i][2] \in 0..counter - 1
          /\ \A j \in 1..Len(frontier) : i < j => frontier[i][2] < frontier[j][2]
    /\ \A i \in 1..Len(frontier) :
          frontier[i][3] = initial_state /\ frontier[i][3] \notin DOMAIN came_from
              => frontier[i][2] = 0

\* A push hands out the next counter and moves it on by one.
PushStep ==
    (InHeapLoop /\ Len(frontier') = Len(frontier) + 1) =>
        /\ frontier'[Len(frontier')][2] = counter
        /\ counter' = counter + 1
        /\ SubSeq(frontier', 1, Len(frontier)) = frontier

\* A pop takes the entry of least priority and, among those, least counter.
PopStep ==
    (InHeapLoop /\ Len(frontier') = Len(frontier) - 1) =>
        \E i \in 1..Len(frontier) :
            /\ frontier' = HeapWithout(frontier, i)
            /\ current_state' = frontier[i][3]
            /\ \A j \in 1..Len(frontier) :
                  \/ j = i
                  \/ frontier[i][1] < frontier[j][1]
                  \/ frontier[i][1] = frontier[j][1] /\ frontier[i][2] < frontier[j][2]

\* C28: in greedy and a_star every frontier entry carries an insertion
\* counter, 0 for the initial state, that is unique and rises by one with each
\* push; the entry popped is the one of least priority (h for greedy, g + h
\* for a_star) and, among equal priorities, of least counter, so two entries
\* never tie and State values are never compared.
FrontierOrder ==
    /\ [](InHeapLoop => CountersUnique)
    /\ [][PushStep /\ PopStep]_vars

\* greedy or a_star has just popped a state while an entry of the same
\* priority, pushed later, waits on the frontier.
FrontierOrderWitness ==
    /\ InHeapLoop /\ pc \in {"greedy_for", "astar_for"}
    /\ succs = get_successors(world, current_state)
    /\ \E i \in 1..Len(frontier) : frontier[i][1] = Priority(current_state)
    /\ Len(frontier) >= 2

\* The pairs of the tuple come in strictly ascending order of their ids.
InIdOrder(pairs) ==
    \A i \in 1..Len(pairs) - 1 : IdRank(pairs[i][1]) < IdRank(pairs[i + 1][1])

\* What a state says, whatever the order of its tuples and whatever its g.
Configuration(state) ==
    <<state.soko_pos, state.carried_box, Range(state.box_positions),
      state.keys_owned, Range(state.keys_on_floor)>>

\* C29: in every reachable state box_positions and keys_on_floor are in
\* ascending order of id, whatever order the initial dicts were filled in, so
\* reachable states with the same configuration have the same canonical key,
\* by whatever order of actions they were reached.
KeyStable ==
    /\ pc = "call" =>
          /\ \A s \in DOMAIN true_cost :
                InIdOrder(s.box_positions) /\ InIdOrder(s.keys_on_floor)
          /\ \A s, t \in DOMAIN true_cost :
                Configuration(s) = Configuration(t) => state_key(s) = state_key(t)
    /\ \A t \in DOMAIN came_from :
          InIdOrder(t.box_positions) /\ InIdOrder(t.keys_on_floor)

\* A search has recorded the state owning keys 1 and 2 as reached by taking
\* key 1 first, and a state owning key 2 alone from which taking key 1 gives
\* the same canonical key; the initial dicts were filled in descending order.
KeyStableWitness ==
    /\ world = Pile[1] /\ initial_state = Pile[2]
    /\ \E t, u \in DOMAIN came_from :
          /\ t.keys_owned = {"1", "2"} /\ came_from[t][1].keys_owned = {"1"}
          /\ u.keys_owned = {"2"} /\ u.keys_on_floor # <<>>
          /\ state_key(take_key(u, "1")) = state_key(t)
          /\ came_from[t][1] # u

\* The box ids of a state in the order of its tuple.
BoxIdsOf(state) == [i \in 1..Len(state.box_positions) |-> state.box_positions[i][1]]

\* The state has the boxes of the initial state, each once, and each lies
\* where it lay at first or on its zone.
BoxesFixed(state) ==
    /\ BoxIdsOf(state) = BoxIdsOf(initial_state)
    /\ Cardinality(DictKeys(state.box_positions)) = Len(state.box_positions)
    /\ \A i \in 1..Len(state.box_positions) :
          \/ state.box_positions[i][2] = initial_state.box_positions[i][2]
          \/ state.box_positions[i][2] = DictGet(world.zones, state.box_positions[i][1])

\* C30: in every reachable state box_positions has the box ids of the initial
\* state, each once, and every box's recorded position is its initial position
\* or its zone: it does not follow the agent while the box is carried.
BoxesStay ==
    /\ pc = "call" => \A s \in DOMAIN true_cost : BoxesFixed(s)
    /\ \A t \in DOMAIN came_from : BoxesFixed(t)

\* A search has recorded a state that carries a box over a tile that is
\* neither where the box lay nor its zone, the box's entry still at its first
\* position, and a state with a box on a zone away from its first position.
BoxesStayWitness ==
    /\ \E t \in DOMAIN came_from :
          /\ t.carried_box # None
          /\ DictGet(t.box_positions, t.carried_box)
                = DictGet(initial_state.box_positions, t.carried_box)
          /\ t.soko_pos # DictGet(t.box_positions, t.carried_box)
          /\ t.soko_pos # DictGet(world.zones, t.carried_box)
    /\ \E t \in DOMAIN came_from :
          \E i \in 1..Len(t.box_positions) :
              /\ t.box_positions[i][2] # initial_state.box_positions[i][2]
              /\ t.box_positions[i][2] = DictGet(world.zones, t.box_positions[i][1])

\* A search is in one of its loops or has returned.
Searching == pc \notin {"call", "raised"}

\* C31 as stated: states_generated is the number of distinct keys ever put on
\* a frontier, the initial state's among them, and states_expanded the number
\* of states popped and goal-tested; a key pushed again by a_star, or met again
\* in a later round of ehc, is not counted twice, so the count never exceeds
\* the number of keys there are.
CountersCountKeys ==
    Searching =>
        /\ (IsBfs \/ IsGreedy) =>
              /\ result.states_generated = Cardinality(explored)
              /\ result.states_expanded = result.states_generated - Len(frontier)
        /\ IsAStar =>
              /\ result.states_generated = Cardinality(DOMAIN g_values)
              /\ result.states_expanded = Cardinality(explored)
        /\ IsEhc =>
              result.states_generated <= Cardinality(ReachableKeys(initial_state))

\* What the counters are in bfs, greedy and a_star: one for the initial state
\* and one for every push, each push being recorded in came_from.
PushesCounted ==
    /\ (IsBfs \/ IsGreedy) =>
          /\ result.states_generated = Cardinality(explored)
          /\ result.states_generated = 1 + Cardinality(DOMAIN came_from)
          /\ result.states_expanded = result.states_generated - Len(frontier)
    /\ IsAStar =>
          /\ result.states_generated = counter
          /\ result.states_generated = 1 + Cardinality(DOMAIN came_from)
          /\ result.states_generated >= Cardinality(DOMAIN g_values)
          /\ result.states_expanded = Cardinality(explored)

\* A round of ehc starts with explored holding its root alone.
RoundStartStep ==
    (IsEhc /\ pc = "ehc_outer" /\ pc' = "ehc_inner") =>
        /\ explored' = {state_key(current_state)}
        /\ result' = result

\* ehc counts a successor as generated exactly when its key is new to the
\* round, and a state as expanded exactly when it is popped.
EhcCountStep ==
    /\ (IsEhc /\ pc = "ehc_for" /\ succs # <<>>) =>
          /\ result'.states_generated = result.states_generated
                + (IF state_key(Head(succs)[1]) \in explored THEN 0 ELSE 1)
          /\ result'.states_expanded = result.states_expanded
    /\ (IsEhc /\ pc = "ehc_inner") =>
          /\ result'.states_generated = result.states_generated
          /\ result'.states_expanded = result.states_expanded
                + (IF Len(frontier') = Len(frontier) - 1 THEN 1 ELSE 0)

\* C31: states_generated is one for the initial state plus one for every
\* push: in bfs and greedy that is the number of distinct keys, in a_star a
\* key pushed again with a better g is counted again, and in ehc a successor
\* is counted whenever its key is new to the round, so again in a later
\* round; states_expanded is the number of pops, stale pops of a_star left
\* out.
CountersCountPushes ==
    /\ [](Searching => PushesCounted)
    /\ [][RoundStartStep /\ EhcCountStep]_vars

\* a_star has counted more states generated than there are keys it has
\* pushed: some key was pushed, and counted, twice.
CountersCountPushesWitness ==
    /\ IsAStar /\ Searching
    /\ result.states_generated > Cardinality(DOMAIN g_values)
    /\ result.states_generated = counter

\* The heuristics that need nothing but the maze and the state.
StatelessHeuristics == {"zero", "adapted"}

\* greedy_best_first_search: the for loop over the successors of current.
RECURSIVE greedy_for(_, _, _, _, _)
greedy_for(maze, name, st, current, successors) ==
    IF successors = <<>> THEN st
    ELSE greedy_for(maze, name,
                    greedy_visit(st, current, Head(successors)[1], Head(successors)[2],
                                 CallHeuristic(name, maze, Head(successors)[1])),
                    current, Tail(successors))

\* greedy_best_first_search: one pass of the while loop on a run that is not
\* over: the loop test, the pop, the goal test and the for loop.
greedy_pass(maze, name, run) ==
    IF run.over THEN run
    ELSE IF run.st.frontier = <<>> THEN [run EXCEPT !.over = TRUE]
    ELSE IF is_goal_state(maze, run.st.frontier[HeapMinIndex(run.st.frontier)][3])
    THEN [run EXCEPT !.over = TRUE, !.success = TRUE]
    ELSE [run EXCEPT !.st =
             greedy_for(maze, name,
                        [run.st EXCEPT !.frontier = HeapWithout(@, HeapMinIndex(@))],
                        run.st.frontier[HeapMinIndex(run.st.frontier)][3],
                        get_successors(maze,
                                       run.st.frontier[HeapMinIndex(run.st.frontier)][3]))]

\* n passes of the while loop, the first half of them before the second.
RECURSIVE greedy_while(_, _, _, _)
greedy_while(maze, name, run, n) ==
    IF n = 0 THEN run
    ELSE IF n = 1 THEN greedy_pass(maze, name, run)
    ELSE LET half == greedy_while(maze, name, run, n \div 2)
         IN  IF half.over THEN half
             ELSE greedy_while(maze, name, half, n - n \div 2)

\* success of greedy_best_first_search(maze, start, heuristic) as a whole:
\* every pass pops a different key, so one pass more than there are keys
\* brings the loop to its end.
greedy_succeeds(maze, start, name) ==
    greedy_while(maze, name,
                 [st |-> LoopState(<< <<CallHeuristic(name, maze, start).value, 0, start>> >>,
                                   {state_key(start)}, EmptyDict, EmptyDict, 1, 1),
                  over |-> FALSE, success |-> FALSE],
                 Cardinality(StateSpace(maze, start)) + 1).success

\* C32 as stated, looked at once a breadth-first search has returned success:
\* among the worlds there is one that has a plan, so that breadth_first_search
\* succeeds on it, on which greedy_best_first_search with some heuristic
\* returns success = false.
GreedyFailsWhereBfsSucceeds ==
    (IsBfs /\ Returned /\ result.success) =>
        \E w \in Worlds, name \in StatelessHeuristics :
            /\ TrueCosts(w[1], w[2])[Norm(w[2])] # Unreachable
            /\ ~greedy_succeeds(w[1], w[2], name)

\* C32: greedy_best_first_search with a heuristic that returns comes back
\* with success exactly when a goal state can be reached, that is, whenever
\* breadth_first_search succeeds; what it does not promise is the shortest
\* plan.
GreedyComplete ==
    /\ (IsGreedy /\ Returned) => (result.success <=> Solvable)
    /\ (IsGreedy /\ Returned /\ heuristic \in StatelessHeuristics) =>
          result.success = greedy_succeeds(world, initial_state, heuristic)

\* Greedy has returned success with a plan longer than the shortest one.
GreedyCompleteWitness ==
    /\ IsGreedy /\ Returned /\ result.success /\ Solvable
    /\ result.plan_length > OptimalLength

\* The state the actions lead to from start, when every one of them applies.
LeadsTo(start, actions, state) ==
    /\ Len(ReplayFrom(world, start, actions)) = Len(actions) + 1
    /\ ReplayFrom(world, start, actions)[Len(actions) + 1] = state

EhcRunning == IsEhc /\ pc \in {"ehc_outer", "ehc_inner", "ehc_for"}

\* While ehc runs the accumulated plan leads from the initial state to
\* current_state and is as long as current_state.g; the root of a round that
\* is under way is no key of the round's came_from.
PlanReachesCurrent ==
    EhcRunning =>
        /\ LeadsTo(initial_state, plan, current_state)
        /\ Len(plan) = current_state.g
        /\ (InRound /\ ~found_better) =>
              \A s \in DOMAIN came_from :
                  s # current_state /\ state_key(s) # state_key(current_state)

\* A result ehc returns with success carries the accumulated plan, which
\* leads to a goal state and is as long as that state's g.
PlanReturned ==
    (IsEhc /\ Returned /\ result.success) =>
        /\ result.plan = plan /\ result.plan_length = Len(plan)
        /\ Len(ReplayFrom(world, initial_state, plan)) = Len(plan) + 1
        /\ is_goal_state(world, ReplayFrom(world, initial_state, plan)[Len(plan) + 1])
        /\ ReplayFrom(world, initial_state, plan)[Len(plan) + 1].g = Len(plan)

\* A step of ehc leaves the plan alone or appends to it, behind everything
\* earlier rounds appended, the actions that lead from the round's root to
\* the successor the round stops at, which is the new current_state unless
\* it is a goal and the call returns.
AppendStep ==
    (EhcRunning /\ plan' # plan) =>
        /\ pc = "ehc_for" /\ succs # <<>>
        /\ Len(plan') > Len(plan)
        /\ SubSeq(plan', 1, Len(plan)) = plan
        /\ LeadsTo(current_state, SubSeq(plan', Len(plan) + 1, Len(plan')), Head(succs)[1])
        /\ Len(plan') - Len(plan) = Head(succs)[1].g - current_state.g
        /\ \/ current_state' = Head(succs)[1] /\ found_better'
           \/ is_goal_state(world, Head(succs)[1]) /\ pc' = "done"

\* C33: the plan ehc accumulates, replayed from the global initial state,
\* leads exactly to current_state at the end of every round, so that its
\* length is current_state.g; each round appends, in round order, only the
\* actions from its root to the state it stopped at, and the root is never a
\* key of the round's came_from.
PlanAccumulation ==
    /\ [](PlanReachesCurrent /\ PlanReturned)
    /\ [][AppendStep]_vars

\* A second or later round has just ended on a better state that is two or
\* more actions away from the round's root.
PlanAccumulationWitness ==
    /\ IsEhc /\ pc = "ehc_inner" /\ found_better
    /\ \E s \in DOMAIN came_from :
          /\ came_from[s][1] \notin DOMAIN came_from
          /\ came_from[s][1].g > 0
          /\ current_state.g >= came_from[s][1].g + 2

\* While ehc runs current_h is the heuristic value of current_state.
BoundIsCurrent == EhcRunning => current_h = H(current_state)

\* The states of the round before that no step of the round came to: its root.
RoundRoots == {came_from[s][1] : s \in DOMAIN came_from} \ DOMAIN came_from

\* At the outer loop test after a round, current_h is strictly below the
\* heuristic value of the root of that round, which was its current_h.
BelowLastRound ==
    (IsEhc /\ pc = "ehc_outer") => \A root \in RoundRoots : current_h < H(root)

\* A step of ehc changes current_state and current_h only together, to a
\* state that is no goal and whose heuristic value is strictly below the
\* current_h it replaces; a goal ends the call instead.
ProgressStep ==
    (EhcRunning /\ (current_state' # current_state \/ current_h' # current_h)) =>
        /\ pc = "ehc_for" /\ succs # <<>>
        /\ current_state' = Head(succs)[1]
        /\ ~is_goal_state(world, current_state')
        /\ current_h' = H(current_state')
        /\ current_h' < current_h
        /\ found_better'

\* C34: at the start of every round of ehc current_h is the heuristic of
\* current_state; from one round to the next it falls strictly; and no state
\* with a heuristic value at or above current_h is ever adopted (a goal ends
\* the search without being adopted).
Progress ==
    /\ [](BoundIsCurrent /\ BelowLastRound)
    /\ [][ProgressStep]_vars

\* A third or later round starts: its current_h is below that of the round
\* before, whose root was itself adopted by an earlier round.
ProgressWitness ==
    /\ IsEhc /\ pc = "ehc_outer" /\ ~is_goal_state(world, current_state)
    /\ \E root \in RoundRoots : root.g > 0 /\ current_h < H(root)

\* The states the run has at hand: the initial state and the successors of
\* the state popped last.
AtHand == {initial_state} \cup {succs[i][1] : i \in 1..Len(succs)}

\* The door ids of the world the state holds no key for.
MissingKeys(state) == DictKeys(world.doors) \ state.keys_owned

\* Nothing is carried and every box that has a zone lies on it.
AllDelivered(state) ==
    /\ state.carried_box = None
    /\ \A i \in 1..Len(boxes_dict(state)) :
          DictGet(world.zones, boxes_dict(state)[i][1]) \in {NoPos, boxes_dict(state)[i][2]}

EndState == ReplayFrom(world, initial_state, result.plan)[Len(result.plan) + 1]

\* C36: the state a successful search ends on carries no box, so the goal
\* test of actions.py, which does not look at carried_box, and that of
\* state.py, which requires it empty, agree on it; and a returned plan that
\* is not empty ends with a "Drop Box <id>" label.
EndsEmptyHanded ==
    (Returned /\ result.success) =>
        /\ Len(ReplayFrom(world, initial_state, result.plan)) = Len(result.plan) + 1
        /\ EndState.carried_box = None
        /\ is_goal_state(world, EndState)
        /\ is_goal_state_not_carrying(world, EndState)
        /\ result.plan # <<>> => result.plan[Len(result.plan)] \in DropNames

\* A search on a world with two boxes has returned a plan, which ends with
\* the drop of the box delivered last.
EndsEmptyHandedWitness ==
    /\ Returned /\ result.success
    /\ Len(initial_state.box_positions) >= 2
    /\ Len(result.plan) >= 2
    /\ result.plan[Len(result.plan)] \in DropNames
    /\ EndState.carried_box = None

\* The agent of the state stands on the grid, on no wall and on no door it
\* holds no key for.
OnOpenTile(state) ==
    /\ in_bounds(world, state.soko_pos)
    /\ ~is_wall(world, state.soko_pos)
    /\ door_id_at(world, state.soko_pos) # None =>
          door_id_at(world, state.soko_pos) \in state.keys_owned

\* The agent starts on the grid, on no wall and on no door.
StartsOnFreeTile ==
    /\ in_bounds(world, initial_state.soko_pos)
    /\ ~is_wall(world, initial_state.soko_pos)
    /\ door_id_at(world, initial_state.soko_pos) = None

\* C37: when the agent starts on a tile that is in bounds, no wall and no
\* door, then in every state that can be reached, and so in every state a run
\* generates, it stands in bounds, on no wall, and on no door whose id is
\* missing from keys_owned.
AgentOnOpenTile ==
    StartsOnFreeTile =>
        /\ \A s \in AtHand : OnOpenTile(s)
        /\ pc = "call" => \A s \in DOMAIN true_cost : OnOpenTile(s)

\* A successor at hand stands on the tile of a door, holding its key, next to
\* a wall or the edge of the grid.
AgentOnOpenTileWitness ==
    /\ StartsOnFreeTile
    /\ \E s \in AtHand \ {initial_state} :
          /\ door_id_at(world, s.soko_pos) # None
          /\ door_id_at(world, s.soko_pos) \in s.keys_owned
          /\ \E d \in {<<0, 1>>, <<1, 0>>, <<0, -1>>, <<-1, 0>>} :
                ~can_move_to(world, s, <<s.soko_pos[1] + d[1], s.soko_pos[2] + d[2]>>)

\* Every recorded predecessor is one action above its state, and the chain of
\* predecessors leads on until it leaves came_from; in bfs, greedy and a_star
\* it leaves it at the initial state, which is no key of came_from.
ChainDescends ==
    \A s \in DOMAIN came_from :
        /\ s.g = came_from[s][1].g + 1
        /\ s # initial_state
        /\ ~IsEhc => \/ came_from[s][1] = initial_state
                     \/ came_from[s][1] \in DOMAIN came_from

\* The goal state a successful search ended on: the state popped last, or in
\* ehc the goal it generated or found current_state to be.
EndedOn ==
    IF IsEhc
    THEN {s \in DOMAIN came_from \cup {current_state} :
             is_goal_state(world, s) /\ s = EndState}
    ELSE {s \in {current_state} : is_goal_state(world, s) /\ s = EndState}

\* C38: a result returned with success has plan_length = len(plan) = g of
\* the state the search ended on; the predecessors reconstruct_plan follows
\* fall by exactly 1 in g per step, so never cycle, and end at the initial
\* state, which is no key of came_from, in a_star too.
PlanLengthIsDepth ==
    /\ ChainDescends
    /\ (Returned /\ result.success) =>
          /\ result.plan_length = Len(result.plan)
          /\ Len(ReplayFrom(world, initial_state, result.plan)) = Len(result.plan) + 1
          /\ EndedOn # {}
          /\ \A s \in EndedOn : s.g = result.plan_length

\* a_star has returned a plan of two or more actions after recording one
\* canonical key with two g values.
PlanLengthIsDepthWitness ==
    /\ IsAStar /\ Returned /\ result.success
    /\ result.plan_length >= 2
    /\ \E s, t \in DOMAIN came_from : state_key(s) = state_key(t) /\ s.g # t.g

\* The initial state of the call is a goal state already.
GoalAtStart == is_goal_state(world, initial_state)

\* The call names one of the four searches.
KnownSearch == IsBfs \/ IsGreedy \/ IsAStar \/ IsEhc

\* The heuristic of the call returns a value for the initial state (bfs calls
\* none).
HeuristicReturns ==
    IsBfs \/ (heuristic # None /\ CallHeuristic(heuristic, world, initial_state).exc = None)

\* What holds of a call whose initial state is a goal state: no successor is
\* generated, the call ends by returning whenever its heuristic returns a
\* value, and what it returns is success with the empty plan, plan_length 0,
\* states_generated = 1 and states_expanded = 1, or 0 in ehc.
GoalAtStartReturns ==
    (GoalAtStart /\ KnownSearch) =>
        /\ succs = <<>> /\ came_from = EmptyDict
        /\ result.states_generated <= 1
        /\ (Ended /\ HeuristicReturns) => Returned
        /\ Returned =>
              /\ result.success
              /\ result.plan = <<>> /\ result.plan_length = 0
              /\ result.states_generated = 1
              /\ result.states_expanded = IF IsEhc THEN 0 ELSE 1

\* C39: when the initial state already is a goal state every search returns
\* success with the empty plan and plan_length 0, bfs, greedy and a_star with
\* states_generated = 1 and states_expanded = 1, ehc with states_generated = 1
\* and states_expanded = 0, and no successor is generated (greedy, a_star and
\* ehc being called with a heuristic).
GoalAtStartSucceeds ==
    (GoalAtStart /\ KnownSearch /\ (IsBfs \/ heuristic # None) /\ Ended) =>
        /\ Returned /\ result.success
        /\ result.plan = <<>> /\ result.plan_length = 0
        /\ result.states_generated = 1
        /\ result.states_expanded = (IF IsEhc THEN 0 ELSE 1)
        /\ succs = <<>> /\ came_from = EmptyDict

\* C40: on every world, each of the four searches called with a heuristic
\* that returns a value (bfs with none), and run without suspension,
\* eventually returns a SearchResult.
Termination == (KnownSearch /\ HeuristicReturns) ~> Returned

\* ehc has returned failure after rounds that made progress, and so has
\* come to its end on a world it cannot solve.
TerminationWitness ==
    /\ IsEhc /\ Returned /\ ~result.success
    /\ current_state # initial_state
    /\ result.states_expanded >= 2

====
